---------------------------- MODULE Spec2Model ----------------------------
(***************************************************************************)
(* A model of hikari's single-shard gateway client.                        *)
(*                                                                         *)
(*   Spec      hikari.net.gateway.Gateway: the run task (_run, _run_once,  *)
(*             _handshake, _poll_events), the heartbeat task (_pulse),     *)
(*             the peer, the clock, and the user's start() and close().    *)
(*   FairSpec  Spec with the asyncio event loop's fairness: a task that    *)
(*             is ready to run is eventually run.                          *)
(*   ShardSpec hikari.clients.shards.ShardClientImpl: start(), close()     *)
(*             and the keep-alive loop around one connection at a time.    *)
(*                                                                         *)
(* asyncio is cooperative: a task runs without interruption from one await *)
(* to the next, so every action below is the code between two suspension   *)
(* points of one task.                                                     *)
(*                                                                         *)
(* Time.  The code only compares differences of perf_counter() readings    *)
(* with durations, so the model stores the elapsed time since each         *)
(* timestamp, in clock ticks of TickLen seconds, instead of the timestamp. *)
(* An elapsed time stops growing once every comparison the code makes has  *)
(* the answer it will keep.  NaN is the float("nan") of the code: every    *)
(* comparison with it is false.                                            *)
(***************************************************************************)
EXTENDS Integers, Sequences, FiniteSets, TLC

\* ------------------------------------------------------------------ bounds
\* Largest sequence number the peer puts on a DISPATCH.
MaxSeq == 2
\* Largest number of next() calls the back-off remembers since its reset.
MaxBackoff == 1
\* Largest number of connect() calls counted.
MaxConnects == 2
\* Largest number of events the dispatcher's log keeps.
MaxObserved == 4
\* Seconds in one tick of the model's clock.
TickLen == 30
\* Sends the rate limiter admits in one window (120 in the code).
MaxBurst == 2
\* Largest number of frames the record of the socket keeps.
MaxWire == 3
\* Largest number of bytes of a compressed payload before its suffix.
MaxBody == 2

\* The clock of the timestamps unit stops here; its heartbeat interval, in
\* ticks.
MaxClock == 5
LatInterval == 2

\* ------------------------------------------------------- program constants
\* _GatewayOpcode
DISPATCH == 0
HEARTBEAT == 1
IDENTIFY == 2
PRESENCE_UPDATE == 3
VOICE_STATE_UPDATE == 4
RESUME == 6
RECONNECT == 7
REQUEST_GUILD_MEMBERS == 8
INVALID_SESSION == 9
HELLO == 10
HEARTBEAT_ACK == 11

\* _GatewayCloseCode
RFC_6455_NORMAL_CLOSURE == 1000
RFC_6455_GOING_AWAY == 1001
RFC_6455_PROTOCOL_ERROR == 1002
RFC_6455_TYPE_ERROR == 1003
RFC_6455_ENCODING_ERROR == 1007
RFC_6455_POLICY_VIOLATION == 1008
RFC_6455_TOO_BIG == 1009
RFC_6455_UNEXPECTED_CONDITION == 1011
DO_NOT_INVALIDATE_SESSION == 3000
UNKNOWN_ERROR == 4000
UNKNOWN_OPCODE == 4001
DECODE_ERROR == 4002
NOT_AUTHENTICATED == 4003
AUTHENTICATION_FAILED == 4004
ALREADY_AUTHENTICATED == 4005
INVALID_SEQ == 4007
RATE_LIMITED == 4008
SESSION_TIMEOUT == 4009
INVALID_SHARD == 4010
SHARDING_REQUIRED == 4011
INVALID_VERSION == 4012
INVALID_INTENT == 4013
DISALLOWED_INTENT == 4014

\* The members of _GatewayCloseCode.
GatewayCloseCodes ==
    { RFC_6455_NORMAL_CLOSURE, RFC_6455_GOING_AWAY, RFC_6455_PROTOCOL_ERROR,
      RFC_6455_TYPE_ERROR, RFC_6455_ENCODING_ERROR, RFC_6455_POLICY_VIOLATION,
      RFC_6455_TOO_BIG, RFC_6455_UNEXPECTED_CONDITION, DO_NOT_INVALIDATE_SESSION,
      UNKNOWN_ERROR, UNKNOWN_OPCODE, DECODE_ERROR, NOT_AUTHENTICATED,
      AUTHENTICATION_FAILED, ALREADY_AUTHENTICATED, INVALID_SEQ, RATE_LIMITED,
      SESSION_TIMEOUT, INVALID_SHARD, SHARDING_REQUIRED, INVALID_VERSION,
      INVALID_INTENT, DISALLOWED_INTENT }

\* A close code that is no member of _GatewayCloseCode.
UnknownCloseCode == DISALLOWED_INTENT + 1

\* The close codes the peer may put in a CLOSE frame.
PeerCloseCodes == GatewayCloseCodes \cup {UnknownCloseCode}

\* The window of _run_once: a run started less than 30 s ago backs off.
BackoffWindow == 30

\* ------------------------------------------------------------- value sets
\* None for an int field, None for a str field, float("nan").
None == -1
NoSession == "None"
NaN == -1

SessionIds == {"abc", "xyz"}
Seqs == 1 .. MaxSeq
EventNames == {"READY", "RESUME", "RESUMED", "MESSAGE_CREATE"}

\* d.heartbeat_interval of HELLO, in milliseconds: one tick of the clock.
HelloIntervalsMs == {TickLen * 1000}
MaxIntervalS == TickLen

\* Ticks after which  now - t < BackoffWindow  is false for good.
RunAgeCap == (BackoffWindow + TickLen - 1) \div TickLen
\* Ticks after which  heartbeat_interval < now - t  is true for good.
MessageAgeCap == MaxIntervalS \div TickLen + 1
\* Ticks after which a sleep of heartbeat_interval has timed out.
SleepCap == (MaxIntervalS + TickLen - 1) \div TickLen

\* A frame written to the socket (fields a frame lacks hold None).
Frame(op, sid, sq) == [op |-> op, session_id |-> sid, seq |-> sq]
NoFrame == Frame(None, NoSession, None)

\* An exception in flight (fields an exception lacks hold their defaults).
Exc(kind, code, flag) == [kind |-> kind, code |-> code, flag |-> flag]
NoExc == Exc("none", 0, FALSE)

\* How an attempt ended: the exception that ended it, the code this client
\* closed the socket with, and the session the gateway held at that moment.
Exit(e, code, sid, sq) ==
    [kind |-> e.kind, flag |-> e.flag, code |-> code, session_id |-> sid, seq |-> sq]
NoExit == Exit(NoExc, 0, NoSession, None)


\* ---------------------------------------------------------------- state
VARIABLES
    \* Gateway fields
    session_id,            \* _session_id
    seq,                   \* _seq
    request_close_event,   \* _request_close_event.is_set()
    handshake_event,       \* _handshake_event.is_set()
    ws,                    \* _ws: "none" (None), "open", "closed"
    ws_close_code,         \* the code this client closed _ws with; 0: it did not
    zombied,               \* _zombied
    is_alive,              \* is_alive: connected_at is not NaN
    heartbeat_interval,    \* heartbeat_interval, in seconds
    since_run_started,     \* ticks since _last_run_started_at
    since_message,         \* ticks since last_message_received
    backoff,               \* _backoff: next() calls since the last reset()
    \* the run task (_run)
    run_pc,                \* where the run task is suspended
    ex,                    \* the exception _run_once is handling
    payload,               \* the frame _handshake has built and not yet sent
    run_error,             \* the exception that ended the run task
    pending_seq,           \* the greatest "s" among the consumer tasks created
                           \* at line 552 that have not started; 0: none
    \* the caller of start()
    start_wait,            \* its wait for _handshake_event: "none" (not
                           \* called), "waiting", "released", "returned"
    \* the heartbeat task (_pulse)
    hb_pc,                 \* where the heartbeat task is suspended
    hb_payload,            \* the HEARTBEAT frame built and not yet sent
    hb_slept,              \* ticks the heartbeat task has slept
    \* what an observer of the gateway has seen
    dispatched,            \* events dispatched in this attempt: the synthetic
                           \* CONNECTED and DISCONNECTED, and "DISPATCH" for
                           \* any event of the protocol
    prev_exit              \* how the previous attempt ended, kept until the
                           \* next handshake frame is sent

gwVars == <<session_id, seq, request_close_event, handshake_event, ws,
            ws_close_code, zombied, is_alive, heartbeat_interval,
            since_run_started, since_message, backoff, run_pc, ex, payload,
            run_error, hb_pc, hb_payload, hb_slept, dispatched, prev_exit,
            start_wait, pending_seq>>

\* ShardClientImpl, its keep-alive task, and the connection it wraps
VARIABLES
    shard_state,           \* _shard_state
    has_dispatcher,        \* _dispatcher is not None
    conn_seq,              \* _connection.seq
    conn_session_id,       \* _connection.session_id
    conn_pc,               \* the connect task: how far connect() has come
    conn_exc,              \* the exception the connect task ended with
    conn_close_requested,  \* _connection.close() was called
    connect_count,         \* connect() calls so far
    ka_pc,                 \* where the keep-alive task (_task) is suspended
    ka_error,              \* the exception that ended the keep-alive task
    ka_caught,             \* the exception _keep_alive handled last
    do_not_back_off,       \* do_not_back_off of _keep_alive
    back_off,              \* back_off of _keep_alive: next() calls since reset()
    since_last_start,      \* ticks since last_start of _keep_alive
    is_resume,             \* is_resume of _spin_up
    start_pc,              \* where the caller of start() is ("released":
                           \* its asyncio.wait is over, it has not run yet)
    extra_task,            \* a later start() created another keep-alive task
    close_pc,              \* where the caller of close() is
    observed               \* events the dispatcher was given, in order

shardVars == <<shard_state, has_dispatcher, conn_seq, conn_session_id, conn_pc,
               conn_exc, conn_close_requested, connect_count, ka_pc, ka_error,
               ka_caught, do_not_back_off, back_off, since_last_start,
               is_resume, start_pc, extra_task, close_pc, observed>>

\* Gateway._send_json and its callers
VARIABLES
    send                   \* a record of:
                           \*   snd_pc: per caller, "idle", "acquire" (awaiting
                           \*     ratelimiter.acquire()), "write" (awaiting
                           \*     send_str)
                           \*   snd_frame: per caller, the opcode of the frame
                           \*     in hand
                           \*   snd_acquired: per caller, acquire() has
                           \*     returned in this call
                           \*   lim_tokens: sends the limiter still admits in
                           \*     this window
                           \*   wire: the opcodes written to the socket, in
                           \*     order

snd_pc == send.snd_pc
snd_frame == send.snd_frame
snd_acquired == send.snd_acquired
lim_tokens == send.lim_tokens
wire == send.wire

SendState(pc, frame, acquired, tokens, written) ==
    [snd_pc |-> pc, snd_frame |-> frame, snd_acquired |-> acquired,
     lim_tokens |-> tokens, wire |-> written]

sendVars == <<send>>

\* Gateway._receive_zlib_message and the frames it is fed
VARIABLES
    zlib                   \* a record of:
                           \*   zl_whole: the zlib-framed payload the peer
                           \*     sends
                           \*   zl_frames: the BINARY frames not yet received,
                           \*     in order
                           \*   zl_buff: buff
                           \*   zl_packets: packets
                           \*   zl_pc: "idle", "loop" (at the loop test),
                           \*     "done"
                           \*   zl_result: what _receive_zlib_message returned
                           \*     or raised

zl_whole == zlib.zl_whole
zl_frames == zlib.zl_frames
zl_buff == zlib.zl_buff
zl_packets == zlib.zl_packets
zl_pc == zlib.zl_pc
zl_result == zlib.zl_result

ZlibState(whole, frames, buff, packets, pc, result) ==
    [zl_whole |-> whole, zl_frames |-> frames, zl_buff |-> buff,
     zl_packets |-> packets, zl_pc |-> pc, zl_result |-> result]

zlibVars == <<zlib>>

\* update_presence of Gateway and of ShardClientImpl
VARIABLES
    pres                   \* a record of:
                           \*   pr_who: the object called, "gateway" or "shard"
                           \*   pr_stored: its _status, _activity, _idle_since,
                           \*     _is_afk
                           \*   pr_pc: "idle", "sending" (awaiting the send)
                           \*   pr_args: the arguments of the last call
                           \*   pr_payload: the payload built by the last call
                           \*   pr_error: the exception the last call raised
                           \*   pr_done: the arguments of the last call that
                           \*     returned
                           \*   pr_twice: that call repeated the one that
                           \*     returned before

pr_who == pres.pr_who
pr_stored == pres.pr_stored
pr_pc == pres.pr_pc
pr_args == pres.pr_args
pr_payload == pres.pr_payload
pr_error == pres.pr_error
pr_done == pres.pr_done
pr_twice == pres.pr_twice

PresState(who, stored, pc, args, built, error, done, twice) ==
    [pr_who |-> who, pr_stored |-> stored, pr_pc |-> pc, pr_args |-> args,
     pr_payload |-> built, pr_error |-> error, pr_done |-> done,
     pr_twice |-> twice]

presVars == <<pres>>

\* The timestamps of one attempt, its poll loop and its heartbeat task
VARIABLES
    lat                    \* a record of:
                           \*   lat_now: _now(), in ticks
                           \*   last_message_received, last_heartbeat_sent,
                           \*     heartbeat_latency: the fields of these names
                           \*   lat_ws: the socket, "open" or "closed"
                           \*   lat_poll_pc: the poll loop, "receive",
                           \*     "ack_send", "done"
                           \*   lat_hb_pc: the heartbeat task, "top", "send",
                           \*     "sleep", "done"

lat_now == lat.lat_now
last_message_received == lat.last_message_received
last_heartbeat_sent == lat.last_heartbeat_sent
heartbeat_latency == lat.heartbeat_latency
lat_ws == lat.lat_ws
lat_poll_pc == lat.lat_poll_pc
lat_hb_pc == lat.lat_hb_pc

LatState(now, received, sent, latency, socket, poll_pc, pulse_pc) ==
    [lat_now |-> now, last_message_received |-> received,
     last_heartbeat_sent |-> sent, heartbeat_latency |-> latency,
     lat_ws |-> socket, lat_poll_pc |-> poll_pc, lat_hb_pc |-> pulse_pc]

latVars == <<lat>>

\* The parts of the Gateway that are checked on their own.
unitVars == <<sendVars, zlibVars, presVars, latVars>>

vars == <<gwVars, shardVars, unitVars>>

\* ------------------------------------------------------------ pure helpers
\* a < b on floats: false when either side is NaN.
Lt(a, b) == a # NaN /\ b # NaN /\ a < b

\* now - t in seconds, for a timestamp t taken `age` ticks ago.
Elapsed(age) == IF age = NaN THEN NaN ELSE age * TickLen

\* next(self._backoff) and self._backoff.reset(), as calls counted.
BackoffNext(b) == IF b < MaxBackoff THEN b + 1 ELSE b
BackoffReset == 0

\* HandshakeFrame with a fault: it tests seq where the code tests session_id.
\* C1 fails under it.
HandshakeFrameBySeq(sid, sq) ==
    IF sq # None THEN Frame(RESUME, sid, sq)
    ELSE Frame(IDENTIFY, NoSession, None)

\* _handshake, lines 470-500: RESUME when a session is stored, else IDENTIFY.
HandshakeFrame(sid, sq) ==
    IF sid # NoSession THEN Frame(RESUME, sid, sq)
    ELSE Frame(IDENTIFY, NoSession, None)

\* _receive_json_payload, lines 591-597.
CanReconnect(close_code) ==
    close_code \in { DECODE_ERROR, INVALID_SEQ, UNKNOWN_ERROR, SESSION_TIMEOUT,
                     RATE_LIMITED }

\* InvalidSessionCloseCode with a fault: a normal closure in both branches,
\* which ends the session at the peer. C3 fails under it.
InvalidSessionCloseCodeNormal(can_resume) == RFC_6455_NORMAL_CLOSURE

\* _run_once, lines 349-356: the close code sent for an invalid session.
InvalidSessionCloseCode(can_resume) ==
    IF can_resume THEN DO_NOT_INVALIDATE_SESSION ELSE RFC_6455_NORMAL_CLOSURE

\* InvalidSessionClears with a fault: line 356 is missing, so that only _seq
\* is cleared. C2 fails under it.
InvalidSessionClearsSeqOnly(can_resume, sid, sq) ==
    IF can_resume THEN <<sid, sq>> ELSE <<sid, None>>

\* _run_once, lines 349-356: <<_session_id, _seq>> after an invalid session.
InvalidSessionClears(can_resume, sid, sq) ==
    IF can_resume THEN <<sid, sq>> ELSE <<NoSession, None>>

\* ReconnectCloseCode with a fault: a normal closure. C4 fails under it.
ReconnectCloseCodeNormal == RFC_6455_NORMAL_CLOSURE

\* _run_once, line 361: the close code sent on RECONNECT.
ReconnectCloseCode == DO_NOT_INVALIDATE_SESSION

\* SocketClosedCanReconnect with a fault: a closed socket ends the run
\* loop. C32 fails under it.
SocketClosedNeverReconnects(closing) == FALSE

\* _run_once, line 370: what it returns after a _SocketClosed.
SocketClosedCanReconnect(closing) == ~closing

\* _run_once, lines 365-369: the back-off after a _SocketClosed.
SocketClosedBackoff(zomb, closing, b) ==
    IF ~zomb /\ ~closing THEN b ELSE BackoffReset

\* IsZombie with a fault: it allows two intervals of silence. C8 fails
\* under it.
IsZombieAfterTwo(interval, age) == Lt(interval + interval, Elapsed(age))

\* _pulse, line 509.
IsZombie(interval, age) == Lt(interval, Elapsed(age))

\* _pulse, line 516: the close code sent for a zombie connection.
ZombieCloseCode == DO_NOT_INVALIDATE_SESSION

\* asyncio.Event.set() and wait(): a caller waiting for _handshake_event is
\* released when the event is set (hs: whether it is set after the step).
Released(w, hs) == IF w = "waiting" /\ hs THEN "released" ELSE w

\* Cancelled with a fault: the heartbeat task is left alone. C30 fails under
\* it.
NotCancelled(pc) == pc

\* heartbeat.cancel(): a task that exists never runs its body again.
Cancelled(pc) == IF pc = "none" THEN "none" ELSE "done"

\* ------------------------------------------------ pieces of _run/_run_once
\* _close_ws on a socket in state w: a socket closes once.
CloseWs(w, code) ==
    /\ ws' = IF w = "none" THEN "none" ELSE "closed"
    /\ ws_close_code' = IF w = "open" THEN code ELSE ws_close_code

\* Teardown with a fault: the dispatch of DISCONNECTED is missing. C19 fails
\* under it.
TeardownSilent(events) ==
    /\ dispatched' = events
    /\ is_alive' = FALSE

\* _run_once, lines 377-384: the finally block.
Teardown(events) ==
    /\ dispatched' = IF is_alive THEN events \cup {"DISCONNECTED"} ELSE events
    /\ is_alive' = FALSE

\* RunExit with a fault: the finally clause of _run is missing. C17 fails
\* under it.
RunExitSilently(err, b) ==
    /\ run_pc' = "done"
    /\ run_error' = err
    /\ backoff' = b
    /\ UNCHANGED <<handshake_event, request_close_event, since_run_started>>

\* _run, lines 291-295: the run task ends with `err`.
RunExit(err, b) ==
    /\ run_pc' = "done"
    /\ run_error' = err
    /\ handshake_event' = TRUE
    /\ backoff' = b
    /\ UNCHANGED <<request_close_event, since_run_started>>

\* _run_once, lines 300-313, up to its first await.
RunOnceEnter(b) ==
    /\ request_close_event' = FALSE
    /\ UNCHANGED <<handshake_event, run_error>>
    /\ IF Lt(Elapsed(since_run_started), BackoffWindow)
       THEN /\ backoff' = BackoffNext(b)
            /\ run_pc' = "backoff"
            /\ UNCHANGED since_run_started
       ELSE /\ backoff' = b
            /\ since_run_started' = 0
            /\ run_pc' = "connect"

\* RunLoop with a fault: the loop of _run never ends. C10 fails under it.
RunLoopForever(can_reconnect, b) == RunOnceEnter(b)

\* _run, line 287: the loop test after _run_once returned `can_reconnect`.
RunLoop(can_reconnect, b) ==
    IF ~request_close_event /\ can_reconnect
    THEN RunOnceEnter(b)
    ELSE RunExit(Exc("client_closed", 0, FALSE), b)

\* _run_once, lines 339-375: exception e leaves the try block while the
\* socket is in state w.  The handlers that await _close_ws suspend in
\* "except"; the others run through the finally block and back into _run.
Raise(e, w, events) ==
    /\ hb_pc' = Cancelled(hb_pc)
    /\ hb_payload' = NoFrame
    /\ hb_slept' = 0
    /\ ex' = IF e.kind \in {"connector_error", "socket_closed"} THEN NoExc ELSE e
    /\ CASE e.kind = "connector_error" ->
              /\ UNCHANGED <<ws, ws_close_code>>
              /\ Teardown(events)
              /\ RunLoop(TRUE, backoff)
         [] e.kind = "socket_closed" ->
              /\ ws' = w
              /\ UNCHANGED ws_close_code
              /\ Teardown(events)
              /\ RunLoop(SocketClosedCanReconnect(request_close_event),
                         SocketClosedBackoff(zombied, request_close_event, backoff))
         [] e.kind = "invalid_session" ->
              /\ CloseWs(w, InvalidSessionCloseCode(e.flag))
              /\ run_pc' = "except"
              /\ dispatched' = events
              /\ UNCHANGED <<is_alive, backoff, request_close_event,
                             since_run_started, handshake_event, run_error>>
         [] e.kind = "reconnect" ->
              /\ backoff' = BackoffReset
              /\ CloseWs(w, ReconnectCloseCode)
              /\ run_pc' = "except"
              /\ dispatched' = events
              /\ UNCHANGED <<is_alive, request_close_event, since_run_started,
                             handshake_event, run_error>>
         [] OTHER ->
              /\ CloseWs(w, RFC_6455_UNEXPECTED_CONDITION)
              /\ run_pc' = "except"
              /\ dispatched' = events
              /\ UNCHANGED <<is_alive, backoff, request_close_event,
                             since_run_started, handshake_event, run_error>>
    /\ prev_exit' = IF e.kind = "connector_error" THEN prev_exit
                    ELSE Exit(e, ws_close_code', session_id, seq)


\* ------------------------------------------------------------------- Init
GatewayInit ==
    /\ session_id = NoSession
    /\ seq = None
    /\ request_close_event = FALSE
    /\ handshake_event = FALSE
    /\ ws = "none"
    /\ ws_close_code = 0
    /\ zombied = FALSE
    /\ is_alive = FALSE
    /\ heartbeat_interval = NaN
    /\ since_run_started = NaN
    /\ since_message = NaN
    /\ backoff = BackoffReset
    /\ run_pc = "idle"
    /\ ex = NoExc
    /\ payload = NoFrame
    /\ run_error = NoExc
    /\ hb_pc = "none"
    /\ hb_payload = NoFrame
    /\ hb_slept = 0
    /\ dispatched = {}
    /\ prev_exit = NoExit
    /\ start_wait = "none"
    /\ pending_seq = 0

\* ------------------------------------------------------------ user calls
\* Gateway.start(), lines 266-267: the run task is created; the caller
\* waits for _handshake_event.
Start ==
    /\ run_pc = "idle"
    /\ run_pc' = "created"
    /\ start_wait' = "waiting"
    /\ UNCHANGED <<session_id, seq, request_close_event, handshake_event, ws,
                   ws_close_code, zombied, is_alive, heartbeat_interval,
                   since_run_started, since_message, backoff, ex, payload,
                   run_error, hb_pc, hb_payload, hb_slept, dispatched, prev_exit>>
    /\ UNCHANGED pending_seq
    /\ UNCHANGED shardVars
    /\ UNCHANGED unitVars

\* Gateway.start(), lines 267-268: the wait is over, start() returns the
\* run task.
StartReturns ==
    /\ start_wait = "released"
    /\ start_wait' = "returned"
    /\ UNCHANGED <<session_id, seq, request_close_event, handshake_event, ws,
                   ws_close_code, zombied, is_alive, heartbeat_interval,
                   since_run_started, since_message, backoff, run_pc, ex,
                   payload, run_error, hb_pc, hb_payload, hb_slept, dispatched,
                   prev_exit>>
    /\ UNCHANGED pending_seq
    /\ UNCHANGED shardVars
    /\ UNCHANGED unitVars

\* Gateway.close(), lines 270-281.
Close ==
    /\ IF ~request_close_event
       THEN /\ request_close_event' = TRUE
            /\ IF ws # "none"
               THEN CloseWs(ws, RFC_6455_NORMAL_CLOSURE)
               ELSE UNCHANGED <<ws, ws_close_code>>
       ELSE UNCHANGED <<request_close_event, ws, ws_close_code>>
    /\ UNCHANGED <<session_id, seq, handshake_event, zombied, is_alive,
                   heartbeat_interval, since_run_started, since_message,
                   backoff, run_pc, ex, payload, run_error, hb_pc, hb_payload,
                   hb_slept, dispatched, prev_exit>>
    /\ start_wait' = Released(start_wait, handshake_event')
    /\ UNCHANGED pending_seq
    /\ UNCHANGED shardVars
    /\ UNCHANGED unitVars

\* ---------------------------------------------------------- the run task
\* _run, line 287: the first loop test of the run task.
Run ==
    /\ run_pc = "created"
    /\ RunLoop(TRUE, backoff)
    /\ UNCHANGED <<session_id, seq, ws, ws_close_code, zombied, is_alive,
                   heartbeat_interval, since_message, ex, payload, hb_pc,
                   hb_payload, hb_slept, dispatched,
                   prev_exit>>
    /\ start_wait' = Released(start_wait, handshake_event')
    /\ UNCHANGED pending_seq
    /\ UNCHANGED shardVars
    /\ UNCHANGED unitVars

\* _run_once, lines 308-313: the back-off sleep ends; `interrupted` when the
\* close request ended it, else by its timeout.
BackoffSleepEnds(interrupted) ==
    /\ run_pc = "backoff"
    /\ interrupted = request_close_event
    /\ since_run_started' = 0
    /\ run_pc' = "connect"
    /\ UNCHANGED <<session_id, seq, request_close_event, handshake_event, ws,
                   ws_close_code, zombied, is_alive, heartbeat_interval,
                   since_message, backoff, ex, payload, run_error, hb_pc,
                   hb_payload, hb_slept, dispatched,
                   prev_exit>>
    /\ start_wait' = Released(start_wait, handshake_event')
    /\ pending_seq' = 0
    /\ UNCHANGED shardVars
    /\ UNCHANGED unitVars

BackoffTimeout == BackoffSleepEnds(FALSE)
BackoffInterrupted == BackoffSleepEnds(TRUE)

\* _run_once, lines 317-325: _create_ws returned a socket.
Connected ==
    /\ run_pc = "connect"
    /\ ws' = "open"
    /\ ws_close_code' = 0
    /\ is_alive' = TRUE
    /\ handshake_event' = FALSE
    /\ request_close_event' = FALSE
    /\ run_pc' = "hello"
    /\ dispatched' = {}
    /\ UNCHANGED <<session_id, seq, zombied, heartbeat_interval,
                   since_run_started, since_message, backoff, ex, payload,
                   run_error, hb_pc, hb_payload, hb_slept, prev_exit>>
    /\ start_wait' = Released(start_wait, handshake_event')
    /\ pending_seq' = 0
    /\ UNCHANGED shardVars
    /\ UNCHANGED unitVars

\* _run_once, lines 317 and 343-346: _create_ws raised ClientConnectorError.
ConnectRefused ==
    /\ run_pc = "connect"
    /\ Raise(Exc("connector_error", 0, FALSE), ws, {})
    /\ UNCHANGED <<session_id, seq, zombied, heartbeat_interval,
                   since_message, payload>>
    /\ start_wait' = Released(start_wait, handshake_event')
    /\ pending_seq' = 0
    /\ UNCHANGED shardVars
    /\ UNCHANGED unitVars

\* _run_once, lines 317 and 372-375: _create_ws raised something else.
ConnectFailed ==
    /\ run_pc = "connect"
    /\ Raise(Exc("error", 0, FALSE), ws, {})
    /\ UNCHANGED <<session_id, seq, zombied, heartbeat_interval,
                   since_message, payload>>
    /\ start_wait' = Released(start_wait, handshake_event')
    /\ pending_seq' = 0
    /\ UNCHANGED shardVars
    /\ UNCHANGED unitVars


\* _poll_events, line 535: the loop test, after a frame was handled (or on
\* entry).  hs: _handshake_event afterwards; hb: the heartbeat task;
\* events: the synthetic events dispatched so far; pe: prev_exit afterwards.
PollLoopTest(hs, hb, events, pe) ==
    IF request_close_event
    THEN \* lines 339-341 and 377-384: the loop ends, _run_once returns False
         /\ hb_pc' = Cancelled(hb)
         /\ hb_payload' = NoFrame
         /\ hb_slept' = 0
         /\ Teardown(events)
         /\ RunLoop(FALSE, backoff)
         /\ prev_exit' = Exit(Exc("closed", 0, FALSE), ws_close_code, session_id, seq)
    ELSE /\ run_pc' = "poll"
         /\ hb_pc' = hb
         /\ handshake_event' = hs
         /\ dispatched' = events
         /\ prev_exit' = pe
         /\ UNCHANGED <<hb_payload, hb_slept, is_alive, backoff,
                        request_close_event, since_run_started, run_error>>

\* HandshakeHello with a fault: the heartbeat task is created as soon as
\* HELLO is in, before IDENTIFY or RESUME is sent. C28 fails under it.
HandshakeHelloPulses(ms) ==
    /\ run_pc = "hello"
    /\ ws = "open"
    /\ since_message' = 0
    /\ heartbeat_interval' = ms \div 1000
    /\ payload' = HandshakeFrame(session_id, seq)
    /\ run_pc' = "hs_send"
    /\ hb_pc' = "top"
    /\ UNCHANGED <<session_id, seq, request_close_event, handshake_event, ws,
                   ws_close_code, zombied, is_alive, since_run_started,
                   backoff, ex, run_error, hb_payload, hb_slept,
                   dispatched, prev_exit>>
    /\ start_wait' = Released(start_wait, handshake_event')
    /\ UNCHANGED pending_seq
    /\ UNCHANGED shardVars
    /\ UNCHANGED unitVars

\* _handshake, lines 461-500, up to the await in _send_json: HELLO arrives.
HandshakeHello(ms) ==
    /\ run_pc = "hello"
    /\ ws = "open"
    /\ since_message' = 0
    /\ heartbeat_interval' = ms \div 1000
    /\ payload' = HandshakeFrame(session_id, seq)
    /\ run_pc' = "hs_send"
    /\ UNCHANGED <<session_id, seq, request_close_event, handshake_event, ws,
                   ws_close_code, zombied, is_alive, since_run_started,
                   backoff, ex, run_error, hb_pc, hb_payload, hb_slept,
                   dispatched, prev_exit>>
    /\ start_wait' = Released(start_wait, handshake_event')
    /\ UNCHANGED pending_seq
    /\ UNCHANGED shardVars
    /\ UNCHANGED unitVars

\* HandshakeNotHello with a fault: the frame is taken as a request to
\* reconnect. C31 fails under it.
HandshakeNotHelloReconnects ==
    /\ run_pc = "hello"
    /\ ws = "open"
    /\ since_message' = 0
    /\ Raise(Exc("reconnect", 0, FALSE), ws, dispatched)
    /\ UNCHANGED <<session_id, seq, zombied, heartbeat_interval, payload>>
    /\ start_wait' = Released(start_wait, handshake_event')
    /\ UNCHANGED pending_seq
    /\ UNCHANGED shardVars
    /\ UNCHANGED unitVars

\* _handshake, lines 461-464: the first frame is not HELLO.
HandshakeNotHello ==
    /\ run_pc = "hello"
    /\ ws = "open"
    /\ since_message' = 0
    /\ Raise(Exc("gateway_error", 0, FALSE), ws, dispatched)
    /\ UNCHANGED <<session_id, seq, zombied, heartbeat_interval, payload>>
    /\ start_wait' = Released(start_wait, handshake_event')
    /\ UNCHANGED pending_seq
    /\ UNCHANGED shardVars
    /\ UNCHANGED unitVars

\* _send_json on behalf of _handshake (lines 472/500, 630-634), then
\* _run_once lines 329-337: CONNECTED is dispatched, the heartbeat task is
\* created and _poll_events is entered.  A frame written to a socket that
\* was closed meanwhile is lost.
HandshakeSent ==
    /\ run_pc = "hs_send"
    /\ ws # "none"
    /\ payload' = NoFrame
    /\ PollLoopTest(handshake_event, "top", dispatched \cup {"CONNECTED"}, NoExit)
    /\ UNCHANGED <<session_id, seq, ws, ws_close_code, zombied,
                   heartbeat_interval, since_message, ex>>
    /\ start_wait' = Released(start_wait, handshake_event')
    /\ UNCHANGED pending_seq
    /\ UNCHANGED shardVars
    /\ UNCHANGED unitVars

\* The same send on a socket closed meanwhile raises instead.
HandshakeSendFails ==
    /\ run_pc = "hs_send"
    /\ ws = "closed"
    /\ payload' = NoFrame
    /\ Raise(Exc("error", 0, FALSE), ws, dispatched)
    /\ UNCHANGED <<session_id, seq, zombied, heartbeat_interval,
                   since_message>>
    /\ start_wait' = Released(start_wait, handshake_event')
    /\ UNCHANGED pending_seq
    /\ UNCHANGED shardVars
    /\ UNCHANGED unitVars

\* _receive_json_payload, lines 582-599: the peer's CLOSE frame (aiohttp has
\* answered it and closed the socket by the time receive() returns).
ReceiveClose(code) ==
    /\ run_pc \in {"hello", "poll"}
    /\ ws = "open"
    /\ since_message' = 0
    /\ Raise(Exc("server_closed", code, CanReconnect(code)), "closed", dispatched)
    /\ UNCHANGED <<session_id, seq, zombied, heartbeat_interval, payload>>
    /\ start_wait' = Released(start_wait, handshake_event')
    /\ UNCHANGED pending_seq
    /\ UNCHANGED shardVars
    /\ UNCHANGED unitVars

\* _receive_json_payload, lines 601-602: the socket is CLOSING or CLOSED.
ReceiveClosed ==
    /\ run_pc \in {"hello", "poll"}
    /\ ws = "closed"
    /\ since_message' = 0
    /\ Raise(Exc("socket_closed", 0, FALSE), ws, dispatched)
    /\ UNCHANGED <<session_id, seq, zombied, heartbeat_interval, payload>>
    /\ start_wait' = Released(start_wait, handshake_event')
    /\ UNCHANGED pending_seq
    /\ UNCHANGED shardVars
    /\ UNCHANGED unitVars

\* _receive_json_payload, lines 603-607: any other message type.
ReceiveError ==
    /\ run_pc \in {"hello", "poll"}
    /\ ws = "open"
    /\ since_message' = 0
    /\ Raise(Exc("gateway_error", 0, FALSE), ws, dispatched)
    /\ UNCHANGED <<session_id, seq, zombied, heartbeat_interval, payload>>
    /\ start_wait' = Released(start_wait, handshake_event')
    /\ UNCHANGED pending_seq
    /\ UNCHANGED shardVars
    /\ UNCHANGED unitVars

\* _poll_events, lines 541-552: a DISPATCH of event t with sequence s (and
\* d.session_id sid).
PollDispatch(t, s, sid) ==
    /\ run_pc = "poll"
    /\ ws = "open"
    /\ since_message' = 0
    /\ seq' = s
    /\ session_id' = IF t = "READY" THEN sid ELSE session_id
    /\ PollLoopTest(handshake_event \/ t \in {"READY", "RESUME"}, hb_pc,
                    dispatched \cup {"DISPATCH"}, prev_exit)
    /\ UNCHANGED <<ws, ws_close_code, zombied, heartbeat_interval, ex, payload>>
    /\ start_wait' = Released(start_wait, handshake_event')
    /\ pending_seq' = IF s > pending_seq THEN s ELSE pending_seq
    /\ UNCHANGED shardVars
    /\ UNCHANGED unitVars

\* _poll_events, lines 554-556, up to the await in _send_json.
PollHeartbeat ==
    /\ run_pc = "poll"
    /\ ws = "open"
    /\ since_message' = 0
    /\ run_pc' = "poll_ack"
    /\ UNCHANGED <<session_id, seq, request_close_event, handshake_event, ws,
                   ws_close_code, zombied, is_alive, heartbeat_interval,
                   since_run_started, backoff, ex, payload, run_error, hb_pc,
                   hb_payload, hb_slept, dispatched,
                   prev_exit>>
    /\ start_wait' = Released(start_wait, handshake_event')
    /\ UNCHANGED pending_seq
    /\ UNCHANGED shardVars
    /\ UNCHANGED unitVars

\* _send_json of the HEARTBEAT_ACK returns.
PollAckSent ==
    /\ run_pc = "poll_ack"
    /\ PollLoopTest(handshake_event, hb_pc, dispatched, prev_exit)
    /\ UNCHANGED <<session_id, seq, ws, ws_close_code, zombied,
                   heartbeat_interval, since_message, ex, payload>>
    /\ start_wait' = Released(start_wait, handshake_event')
    /\ UNCHANGED pending_seq
    /\ UNCHANGED shardVars
    /\ UNCHANGED unitVars

\* _send_json of the HEARTBEAT_ACK raises: the socket was closed meanwhile.
PollAckFails ==
    /\ run_pc = "poll_ack"
    /\ ws = "closed"
    /\ Raise(Exc("error", 0, FALSE), ws, dispatched)
    /\ UNCHANGED <<session_id, seq, zombied, heartbeat_interval,
                   since_message, payload>>
    /\ start_wait' = Released(start_wait, handshake_event')
    /\ UNCHANGED pending_seq
    /\ UNCHANGED shardVars
    /\ UNCHANGED unitVars

\* _poll_events, lines 558-560 and 570-571: HEARTBEAT_ACK, or an opcode the
\* loop ignores.
PollIgnored ==
    /\ run_pc = "poll"
    /\ ws = "open"
    /\ since_message' = 0
    /\ PollLoopTest(handshake_event, hb_pc, dispatched, prev_exit)
    /\ UNCHANGED <<session_id, seq, ws, ws_close_code, zombied,
                   heartbeat_interval, ex, payload>>
    /\ start_wait' = Released(start_wait, handshake_event')
    /\ UNCHANGED pending_seq
    /\ UNCHANGED shardVars
    /\ UNCHANGED unitVars

\* _poll_events, lines 562-564, and _run_once, lines 358-361.
PollReconnect ==
    /\ run_pc = "poll"
    /\ ws = "open"
    /\ since_message' = 0
    /\ Raise(Exc("reconnect", 0, FALSE), ws, dispatched)
    /\ UNCHANGED <<session_id, seq, zombied, heartbeat_interval, payload>>
    /\ start_wait' = Released(start_wait, handshake_event')
    /\ UNCHANGED pending_seq
    /\ UNCHANGED shardVars
    /\ UNCHANGED unitVars

\* _poll_events, lines 566-568, and _run_once, lines 348-354: INVALID_SESSION
\* with d = can_resume.
PollInvalidSession(can_resume) ==
    /\ run_pc = "poll"
    /\ ws = "open"
    /\ since_message' = 0
    /\ Raise(Exc("invalid_session", 0, can_resume), ws, dispatched)
    /\ UNCHANGED <<session_id, seq, zombied, heartbeat_interval, payload>>
    /\ start_wait' = Released(start_wait, handshake_event')
    /\ UNCHANGED pending_seq
    /\ UNCHANGED shardVars
    /\ UNCHANGED unitVars

\* _run_once, lines 351-386: _close_ws has returned in an except block.
ExceptHandled ==
    /\ run_pc = "except"
    /\ Teardown(dispatched)
    /\ IF ex.kind = "invalid_session"
       THEN /\ session_id' = InvalidSessionClears(ex.flag, session_id, seq)[1]
            /\ seq' = InvalidSessionClears(ex.flag, session_id, seq)[2]
            /\ RunLoop(TRUE, backoff)
       ELSE IF ex.kind = "reconnect"
       THEN /\ UNCHANGED <<session_id, seq>>
            /\ RunLoop(TRUE, backoff)
       ELSE /\ UNCHANGED <<session_id, seq>>
            /\ RunExit(ex, backoff)
    /\ ex' = NoExc
    /\ UNCHANGED <<ws, ws_close_code, zombied, heartbeat_interval,
                   since_message, payload, hb_pc, hb_payload, hb_slept, prev_exit>>
    /\ start_wait' = Released(start_wait, handshake_event')
    /\ UNCHANGED pending_seq
    /\ UNCHANGED shardVars
    /\ UNCHANGED unitVars

\* asyncio.create_task, line 552: the consumer tasks created since the run
\* task last suspended start when it suspends next, and see the gateway as it
\* is then. A receive, a send or a close may or may not have to wait (this
\* action, in any state); the back-off sleep and the connect always do (the
\* actions that follow them leave no task pending).
DispatchRuns ==
    /\ pending_seq # 0
    /\ pending_seq' = 0
    /\ UNCHANGED <<session_id, seq, request_close_event, handshake_event, ws,
                   ws_close_code, zombied, is_alive, heartbeat_interval,
                   since_run_started, since_message, backoff, run_pc, ex,
                   payload, run_error, hb_pc, hb_payload, hb_slept, dispatched,
                   prev_exit, start_wait>>
    /\ UNCHANGED shardVars
    /\ UNCHANGED unitVars

\* ----------------------------------------------------- the heartbeat task
\* Pulse with a fault: a zombie connection ends the heartbeat task without
\* closing the socket. C29 fails under it.
PulseLeavesSocket ==
    /\ hb_pc = "top"
    /\ IF request_close_event
       THEN /\ hb_pc' = "done"
            /\ UNCHANGED <<zombied, hb_payload>>
       ELSE IF IsZombie(heartbeat_interval, since_message)
       THEN /\ zombied' = TRUE
            /\ hb_pc' = "done"
            /\ UNCHANGED hb_payload
       ELSE /\ hb_payload' = Frame(HEARTBEAT, NoSession, seq)
            /\ hb_pc' = "send"
            /\ UNCHANGED zombied
    /\ hb_slept' = 0
    /\ UNCHANGED <<session_id, seq, request_close_event, handshake_event,
                   ws, ws_close_code, is_alive, heartbeat_interval,
                   since_run_started, since_message, backoff, run_pc, ex,
                   payload, run_error, dispatched, prev_exit>>
    /\ start_wait' = Released(start_wait, handshake_event')
    /\ UNCHANGED pending_seq
    /\ UNCHANGED shardVars
    /\ UNCHANGED unitVars

\* _pulse, lines 504-522, up to the await in _close_ws or _send_json.
Pulse ==
    /\ hb_pc = "top"
    /\ IF request_close_event
       THEN /\ hb_pc' = "done"
            /\ UNCHANGED <<zombied, ws, ws_close_code, hb_payload>>
       ELSE IF IsZombie(heartbeat_interval, since_message)
       THEN /\ zombied' = TRUE
            /\ CloseWs(ws, ZombieCloseCode)
            /\ hb_pc' = "done"
            /\ UNCHANGED hb_payload
       ELSE /\ hb_payload' = Frame(HEARTBEAT, NoSession, seq)
            /\ hb_pc' = "send"
            /\ UNCHANGED <<zombied, ws, ws_close_code>>
    /\ hb_slept' = 0
    /\ UNCHANGED <<session_id, seq, request_close_event, handshake_event,
                   is_alive, heartbeat_interval, since_run_started,
                   since_message, backoff, run_pc, ex, payload, run_error,
                   dispatched, prev_exit>>
    /\ start_wait' = Released(start_wait, handshake_event')
    /\ UNCHANGED pending_seq
    /\ UNCHANGED shardVars
    /\ UNCHANGED unitVars

\* _pulse, lines 522-526: the HEARTBEAT is written; the task sleeps.
PulseSent ==
    /\ hb_pc = "send"
    /\ hb_pc' = "sleep"
    /\ hb_payload' = NoFrame
    /\ hb_slept' = 0
    /\ UNCHANGED <<session_id, seq, request_close_event, handshake_event, ws,
                   ws_close_code, zombied, is_alive, heartbeat_interval,
                   since_run_started, since_message, backoff, run_pc, ex,
                   payload, run_error, dispatched,
                   prev_exit>>
    /\ start_wait' = Released(start_wait, handshake_event')
    /\ UNCHANGED pending_seq
    /\ UNCHANGED shardVars
    /\ UNCHANGED unitVars

\* _pulse, line 522: the send raises on a socket closed meanwhile; the
\* exception is no CancelledError and ends the task.
PulseSendFails ==
    /\ hb_pc = "send"
    /\ ws = "closed"
    /\ hb_pc' = "done"
    /\ hb_payload' = NoFrame
    /\ hb_slept' = 0
    /\ UNCHANGED <<session_id, seq, request_close_event, handshake_event, ws,
                   ws_close_code, zombied, is_alive, heartbeat_interval,
                   since_run_started, since_message, backoff, run_pc, ex,
                   payload, run_error, dispatched,
                   prev_exit>>
    /\ start_wait' = Released(start_wait, handshake_event')
    /\ UNCHANGED pending_seq
    /\ UNCHANGED shardVars
    /\ UNCHANGED unitVars

\* _pulse, lines 525-528: the sleep ends, by the close request or by its
\* timeout of heartbeat_interval seconds.
PulseWakes ==
    /\ hb_pc = "sleep"
    /\ request_close_event \/ ~Lt(Elapsed(hb_slept), heartbeat_interval)
    /\ hb_pc' = "top"
    /\ hb_slept' = 0
    /\ UNCHANGED <<session_id, seq, request_close_event, handshake_event, ws,
                   ws_close_code, zombied, is_alive, heartbeat_interval,
                   since_run_started, since_message, backoff, run_pc, ex,
                   payload, run_error, hb_payload, dispatched, prev_exit>>
    /\ start_wait' = Released(start_wait, handshake_event')
    /\ UNCHANGED pending_seq
    /\ UNCHANGED shardVars
    /\ UNCHANGED unitVars

\* ------------------------------------------------------- the environment
\* An age after one tick of the clock.
Older(age, cap) == IF age # NaN /\ age < cap THEN age + 1 ELSE age

\* One tick of the clock. The clock advances while the tasks wait: by then
\* the tasks that were ready (the released caller of start(), the consumer
\* tasks) have run.
Tick ==
    /\ since_run_started' = Older(since_run_started, RunAgeCap)
    /\ since_message' = Older(since_message, MessageAgeCap)
    /\ hb_slept' = IF hb_pc = "sleep" THEN Older(hb_slept, SleepCap) ELSE hb_slept
    /\ UNCHANGED <<session_id, seq, request_close_event, handshake_event, ws,
                   ws_close_code, zombied, is_alive, heartbeat_interval,
                   backoff, run_pc, ex, payload, run_error, hb_pc, hb_payload,
                   dispatched, prev_exit>>
    /\ start_wait' = IF start_wait = "released" THEN "returned" ELSE start_wait
    /\ pending_seq' = 0
    /\ UNCHANGED shardVars
    /\ UNCHANGED unitVars

\* The connection is lost without a close frame.
SocketLost ==
    /\ ws = "open"
    /\ ws' = "closed"
    /\ UNCHANGED <<session_id, seq, request_close_event, handshake_event,
                   ws_close_code, zombied, is_alive, heartbeat_interval,
                   since_run_started, since_message, backoff, run_pc, ex,
                   payload, run_error, hb_pc, hb_payload, hb_slept, dispatched, prev_exit>>
    /\ start_wait' = Released(start_wait, handshake_event')
    /\ UNCHANGED pending_seq
    /\ UNCHANGED shardVars
    /\ UNCHANGED unitVars


\* =================================================== ShardClientImpl
\* _keep_alive, lines 459-467: the close codes that end the keep-alive loop.
KeepAliveFatalCodes ==
    { NOT_AUTHENTICATED, AUTHENTICATION_FAILED, ALREADY_AUTHENTICATED,
      SHARDING_REQUIRED, INVALID_VERSION, INVALID_INTENT, DISALLOWED_INTENT }

\* The session and the sequence number a connection holds once it is ready.
\* _keep_alive and _spin_up only test them against None.
ReadySessionIds == {"abc"}
ReadySeqs == {MaxSeq}

\* The exceptions a connect task ends with (`returned`: it ends with none).
ConnectOutcomes ==
    { Exc(k, 0, FALSE) : k \in { "connector_error", "zombied", "must_reconnect",
                                 "client_disconnected", "error", "returned" } }
    \cup { Exc("invalid_session", 0, can_resume) : can_resume \in BOOLEAN }
    \cup { Exc("server_closed", code, FALSE) : code \in PeerCloseCodes }

\* reconnect_count of the connection: the connect() calls after the first.
ReconnectCount == IF connect_count > 1 THEN connect_count - 1 ELSE 0

\* dispatch_event(name), when there is a dispatcher.
Observe(log, name) ==
    IF has_dispatcher /\ Len(log) < MaxObserved THEN Append(log, name) ELSE log

\* _keep_alive, lines 447-448: <<seq, session_id>> of the connection after a
\* GatewayInvalidSessionError.
KeepAliveClears(can_resume, sq, sid) ==
    IF can_resume THEN <<sq, sid>> ELSE <<None, NoSession>>

\* _keep_alive, lines 458-471: whether a server close ends the loop.
KeepAliveRaises(close_code) == close_code \in KeepAliveFatalCodes

\* ShardClientImpl.__init__, lines 250-291, with or without a dispatcher.
ClientInit(dispatcher) ==
    /\ shard_state = "NOT_RUNNING"
    /\ has_dispatcher = dispatcher
    /\ conn_seq = None
    /\ conn_session_id = NoSession
    /\ conn_pc = "none"
    /\ conn_exc = NoExc
    /\ conn_close_requested = FALSE
    /\ connect_count = 0
    /\ ka_pc = "none"
    /\ ka_error = NoExc
    /\ ka_caught = NoExc
    /\ do_not_back_off = TRUE
    /\ back_off = BackoffReset
    /\ since_last_start = NaN
    /\ is_resume = FALSE
    /\ start_pc = "none"
    /\ extra_task = FALSE
    /\ close_pc = "none"
    /\ observed = <<>>

\* _spin_up, lines 485-493, entered from _keep_alive lines 420-425: up to the
\* first await of _spin_up.
SpinUp ==
    /\ since_last_start' = 0
    /\ do_not_back_off' = FALSE
    /\ shard_state' = "CONNECTING"
    /\ is_resume' = (conn_seq # None /\ conn_session_id # NoSession)
    /\ conn_pc' = "created"
    /\ conn_exc' = NoExc
    /\ connect_count' = IF connect_count < MaxConnects THEN connect_count + 1
                        ELSE connect_count
    /\ ka_pc' = "wait_hello"

\* _keep_alive, lines 411-425: the top of the loop, up to its first await.
\* dnbo is do_not_back_off at this moment.
KeepAliveLoop(dnbo) ==
    IF ~dnbo /\ Lt(Elapsed(since_last_start), BackoffWindow)
    THEN /\ back_off' = BackoffNext(back_off)
         /\ ka_pc' = "backoff"
         /\ do_not_back_off' = dnbo
         /\ UNCHANGED <<since_last_start, shard_state, is_resume, conn_pc,
                        conn_exc, connect_count>>
    ELSE /\ back_off' = BackoffReset
         /\ SpinUp

\* _keep_alive, lines 434-481: the except clauses, for the exception e that
\* _spin_up or the connect task raised.
KeepAliveHandles(e) ==
    /\ ka_caught' = e
    /\ conn_seq' = IF e.kind = "invalid_session"
                   THEN KeepAliveClears(e.flag, conn_seq, conn_session_id)[1]
                   ELSE conn_seq
    /\ conn_session_id' = IF e.kind = "invalid_session"
                          THEN KeepAliveClears(e.flag, conn_seq, conn_session_id)[2]
                          ELSE conn_session_id
    /\ CASE e.kind \in {"invalid_session", "must_reconnect"} ->
              /\ do_not_back_off' = TRUE
              /\ ka_pc' = "sleep5"
              /\ UNCHANGED <<ka_error, back_off, since_last_start, shard_state,
                             is_resume, conn_pc, conn_exc, connect_count>>
         [] e.kind = "client_closed" ->
              /\ ka_pc' = "done"
              /\ UNCHANGED <<ka_error, do_not_back_off, back_off,
                             since_last_start, shard_state, is_resume, conn_pc,
                             conn_exc, connect_count>>
         [] e.kind = "error"
            \/ (e.kind = "server_closed" /\ KeepAliveRaises(e.code)) ->
              /\ ka_pc' = "done"
              /\ ka_error' = e
              /\ UNCHANGED <<do_not_back_off, back_off, since_last_start,
                             shard_state, is_resume, conn_pc, conn_exc,
                             connect_count>>
         [] OTHER ->
              /\ UNCHANGED ka_error
              /\ KeepAliveLoop(do_not_back_off)

\* ShardClientImpl.start(), lines 365-370.
ShardStart ==
    /\ start_pc = "none"
    /\ IF shard_state \in {"NOT_RUNNING", "STOPPED"}
       THEN /\ ka_pc' = "created"
            /\ start_pc' = "waiting"
       ELSE /\ start_pc' = "raised"
            /\ UNCHANGED ka_pc
    /\ UNCHANGED <<shard_state, has_dispatcher, conn_seq, conn_session_id,
                   conn_pc, conn_exc, conn_close_requested, connect_count,
                   ka_error, ka_caught, do_not_back_off, back_off,
                   since_last_start, is_resume, close_pc, observed>>
    /\ UNCHANGED extra_task
    /\ UNCHANGED gwVars
    /\ UNCHANGED unitVars

\* ShardClientImpl.start(), lines 365-368, called when start() was called
\* before: it raises RuntimeError, or it creates a keep-alive task beside
\* the one there is.  The model records that task and does not run it.
ShardStartAgain ==
    /\ start_pc # "none"
    /\ extra_task' = (extra_task \/ shard_state \in {"NOT_RUNNING", "STOPPED"})
    /\ UNCHANGED <<shard_state, has_dispatcher, conn_seq, conn_session_id,
                   conn_pc, conn_exc, conn_close_requested, connect_count,
                   ka_pc, ka_error, ka_caught, do_not_back_off, back_off,
                   since_last_start, is_resume, start_pc, close_pc, observed>>
    /\ UNCHANGED gwVars
    /\ UNCHANGED unitVars

\* StartResult with a fault: the exception of the keep-alive task is not
\* looked at. C16 fails under it.
StartResultSwallows(task_done, error) == "returned"

\* start(), lines 374-376: what start() ends with, given whether the
\* keep-alive task is among the completed tasks and the exception it has.
StartResult(task_done, error) ==
    IF task_done /\ error # NoExc THEN "raised" ELSE "returned"

\* start(), lines 370-376: asyncio.wait has returned, because the
\* keep-alive task is done or because ready_event was set meanwhile.
ShardStartReturns ==
    /\ start_pc = "released" \/ (start_pc = "waiting" /\ ka_pc = "done")
    /\ start_pc' = StartResult(ka_pc = "done", ka_error)
    /\ UNCHANGED <<shard_state, has_dispatcher, conn_seq, conn_session_id,
                   conn_pc, conn_exc, conn_close_requested, connect_count,
                   ka_pc, ka_error, ka_caught, do_not_back_off, back_off,
                   since_last_start, is_resume, close_pc, observed>>
    /\ UNCHANGED extra_task
    /\ UNCHANGED gwVars
    /\ UNCHANGED unitVars

\* close(), lines 388-395, up to its first await.
ShardClose ==
    /\ close_pc \in {"none", "returned", "raised"}
    /\ IF shard_state # "STOPPING"
       THEN /\ shard_state' = "STOPPING"
            /\ observed' = Observe(observed, "stopping")
            /\ IF has_dispatcher
               THEN /\ close_pc' = "stopping"
                    /\ UNCHANGED conn_close_requested
               ELSE /\ close_pc' = "closing"
                    /\ conn_close_requested' = TRUE
       ELSE /\ close_pc' = "returned"
            /\ UNCHANGED <<shard_state, observed, conn_close_requested>>
    /\ UNCHANGED <<has_dispatcher, conn_seq, conn_session_id, conn_pc, conn_exc,
                   connect_count, ka_pc, ka_error, ka_caught, do_not_back_off,
                   back_off, since_last_start, is_resume, start_pc>>
    /\ UNCHANGED extra_task
    /\ UNCHANGED gwVars
    /\ UNCHANGED unitVars

\* close(), lines 393-395: the StoppingEvent is dispatched; the connection
\* is told to close.
ShardCloseConnection ==
    /\ close_pc = "stopping"
    /\ conn_close_requested' = TRUE
    /\ close_pc' = "closing"
    /\ UNCHANGED <<shard_state, has_dispatcher, conn_seq, conn_session_id,
                   conn_pc, conn_exc, connect_count, ka_pc, ka_error, ka_caught,
                   do_not_back_off, back_off, since_last_start, is_resume,
                   start_pc, observed>>
    /\ UNCHANGED extra_task
    /\ UNCHANGED gwVars
    /\ UNCHANGED unitVars

\* close(), lines 395-401: _connection.close() has returned, and (when there
\* is a keep-alive task) the task is done.
ShardCloseJoins ==
    /\ close_pc = "closing"
    /\ ka_pc \in {"none", "done"}
    /\ IF ka_error # NoExc
       THEN /\ close_pc' = "raised"
            /\ UNCHANGED observed
       ELSE /\ close_pc' = "returned"
            /\ observed' = Observe(observed, "stopped")
    /\ UNCHANGED <<shard_state, has_dispatcher, conn_seq, conn_session_id,
                   conn_pc, conn_exc, conn_close_requested, connect_count,
                   ka_pc, ka_error, ka_caught, do_not_back_off, back_off,
                   since_last_start, is_resume, start_pc>>
    /\ UNCHANGED extra_task
    /\ UNCHANGED gwVars
    /\ UNCHANGED unitVars

\* _keep_alive, lines 404-425: the task starts.
KeepAliveStarts ==
    /\ ka_pc = "created"
    /\ observed' = Observe(observed, "starting")
    /\ IF has_dispatcher
       THEN /\ ka_pc' = "starting"
            /\ since_last_start' = 0
            /\ do_not_back_off' = TRUE
            /\ back_off' = BackoffReset
            /\ UNCHANGED <<shard_state, is_resume, conn_pc, conn_exc,
                           connect_count>>
       ELSE /\ back_off' = BackoffReset
            /\ SpinUp
    /\ UNCHANGED <<has_dispatcher, conn_seq, conn_session_id,
                   conn_close_requested, ka_error, ka_caught, start_pc,
                   close_pc>>
    /\ UNCHANGED extra_task
    /\ UNCHANGED gwVars
    /\ UNCHANGED unitVars

\* _keep_alive: an await of the loop's prologue ends (the StartingEvent is
\* dispatched, the back-off sleep or the sleep of 5 s is over).
KeepAliveResumes ==
    /\ ka_pc \in {"starting", "backoff", "sleep5"}
    /\ IF ka_pc = "backoff"
       THEN /\ SpinUp
            /\ UNCHANGED back_off
       ELSE KeepAliveLoop(do_not_back_off)
    /\ ka_caught' = NoExc
    /\ UNCHANGED <<has_dispatcher, conn_seq, conn_session_id,
                   conn_close_requested, ka_error, start_pc, close_pc,
                   observed>>
    /\ UNCHANGED extra_task
    /\ UNCHANGED gwVars
    /\ UNCHANGED unitVars

\* _spin_up, lines 491-538: one asyncio.wait returns, because the connect
\* task is done or because the event waited for is set.  Only a task that
\* ended with an exception makes _spin_up raise: after a task that returned,
\* _spin_up goes on as if the event had been set.
SpinUpWaitReturns ==
    /\ ka_pc \in {"wait_hello", "wait_handshake", "wait_ready"}
    /\ IF conn_pc = "done" /\ conn_exc.kind # "returned"
       THEN /\ KeepAliveHandles(conn_exc)
            /\ UNCHANGED observed
       ELSE /\ CASE ka_pc = "wait_hello" ->
                     /\ conn_pc \in {"hello", "handshook", "ready", "done"}
                     /\ ka_pc' = "wait_handshake"
                     /\ UNCHANGED <<shard_state, observed>>
                [] ka_pc = "wait_handshake" ->
                     /\ conn_pc \in {"handshook", "ready", "done"}
                     /\ ka_pc' = "wait_ready"
                     /\ shard_state' = IF is_resume THEN "RESUMING"
                                       ELSE "WAITING_FOR_READY"
                     /\ UNCHANGED observed
                [] ka_pc = "wait_ready" ->
                     /\ conn_pc \in {"ready", "done"}
                     /\ shard_state' = "READY"
                     /\ IF has_dispatcher /\ ReconnectCount = 0
                        THEN /\ observed' = Observe(observed, "started")
                             /\ ka_pc' = "started"
                        ELSE /\ ka_pc' = "running"
                             /\ UNCHANGED observed
            /\ ka_caught' = NoExc
            /\ UNCHANGED <<conn_seq, conn_session_id, conn_pc, conn_exc,
                           connect_count, ka_error, do_not_back_off, back_off,
                           since_last_start, is_resume>>
    /\ UNCHANGED <<has_dispatcher, conn_close_requested, start_pc, close_pc>>
    /\ UNCHANGED extra_task
    /\ UNCHANGED gwVars
    /\ UNCHANGED unitVars

\* _keep_alive, lines 429-431: the StartedEvent is dispatched.
KeepAliveAwaitsConnection ==
    /\ ka_pc = "started"
    /\ ka_pc' = "running"
    /\ UNCHANGED <<shard_state, has_dispatcher, conn_seq, conn_session_id,
                   conn_pc, conn_exc, conn_close_requested, connect_count,
                   ka_error, ka_caught, do_not_back_off, back_off,
                   since_last_start, is_resume, start_pc, close_pc, observed>>
    /\ UNCHANGED extra_task
    /\ UNCHANGED gwVars
    /\ UNCHANGED unitVars

\* _keep_alive, lines 431-481: the connect task is done.
KeepAliveConnectionEnds ==
    /\ ka_pc = "running"
    /\ conn_pc = "done"
    /\ KeepAliveHandles(conn_exc)
    /\ UNCHANGED <<has_dispatcher, conn_close_requested, start_pc, close_pc,
                   observed>>
    /\ UNCHANGED extra_task
    /\ UNCHANGED gwVars
    /\ UNCHANGED unitVars

\* The connection: connect() comes one step further (it has connected and
\* received HELLO; it has sent IDENTIFY or RESUME; it has received READY or
\* RESUMED, which gives it a session).  A connection without a session has
\* sent IDENTIFY, and the READY it receives sets ready_event, which releases
\* a caller waiting in start().
ConnectionAdvances(sid, sq) ==
    /\ conn_pc \in {"created", "hello", "handshook"}
    /\ conn_pc' = CASE conn_pc = "created" -> "hello"
                    [] conn_pc = "hello" -> "handshook"
                    [] conn_pc = "handshook" -> "ready"
    /\ IF conn_pc = "handshook"
       THEN /\ conn_seq' = sq
            /\ conn_session_id' = IF conn_session_id = NoSession THEN sid
                                  ELSE conn_session_id
       ELSE UNCHANGED <<conn_seq, conn_session_id>>
    /\ start_pc' = IF /\ start_pc = "waiting"
                      /\ conn_pc = "handshook"
                      /\ conn_session_id = NoSession
                   THEN "released" ELSE start_pc
    /\ UNCHANGED <<shard_state, has_dispatcher, conn_exc, conn_close_requested,
                   connect_count, ka_pc, ka_error, ka_caught, do_not_back_off,
                   back_off, since_last_start, is_resume, close_pc, observed>>
    /\ UNCHANGED extra_task
    /\ UNCHANGED gwVars
    /\ UNCHANGED unitVars

\* The connection: the connect task ends with exception e (with
\* GatewayClientClosedError only after close() was called on it).
ConnectionEnds(e) ==
    /\ conn_pc \in {"created", "hello", "handshook", "ready"}
    /\ e.kind = "client_closed" => conn_close_requested
    /\ conn_pc' = "done"
    /\ conn_exc' = e
    /\ UNCHANGED <<shard_state, has_dispatcher, conn_seq, conn_session_id,
                   conn_close_requested, connect_count, ka_pc, ka_error,
                   ka_caught, do_not_back_off, back_off, since_last_start,
                   is_resume, start_pc, close_pc, observed>>
    /\ UNCHANGED extra_task
    /\ UNCHANGED gwVars
    /\ UNCHANGED unitVars

\* One tick of the clock of the keep-alive task.
ShardTick ==
    /\ since_last_start # NaN
    /\ since_last_start < RunAgeCap
    /\ since_last_start' = since_last_start + 1
    /\ UNCHANGED <<shard_state, has_dispatcher, conn_seq, conn_session_id,
                   conn_pc, conn_exc, conn_close_requested, connect_count,
                   ka_pc, ka_error, ka_caught, do_not_back_off, back_off,
                   is_resume, start_pc, close_pc, observed>>
    /\ UNCHANGED extra_task
    /\ UNCHANGED gwVars
    /\ UNCHANGED unitVars

ShardNext ==
    \/ ShardStart
    \/ ShardStartAgain
    \/ ShardStartReturns
    \/ ShardClose
    \/ ShardCloseConnection
    \/ ShardCloseJoins
    \/ KeepAliveStarts
    \/ KeepAliveResumes
    \/ SpinUpWaitReturns
    \/ KeepAliveAwaitsConnection
    \/ KeepAliveConnectionEnds
    \/ \E sid \in ReadySessionIds, sq \in ReadySeqs : ConnectionAdvances(sid, sq)
    \/ \E e \in ConnectOutcomes \cup {Exc("client_closed", 0, FALSE)} :
           ConnectionEnds(e)
    \/ ShardTick

\* ------------------------------------------------------------ the send path
\* The callers of _send_json: the run task (_handshake, line 472 or 500; the
\* poll loop, line 556), the heartbeat task (line 522) and the user's calls
\* (update_presence, line 413; update_voice_state, line 453).
Senders == {"run", "pulse", "user"}

SenderFrames(t) ==
    CASE t = "run"   -> {IDENTIFY, RESUME, HEARTBEAT_ACK}
      [] t = "pulse" -> {HEARTBEAT}
      [] t = "user"  -> {PRESENCE_UPDATE, VOICE_STATE_UPDATE}

SendInit ==
    send = SendState([t \in Senders |-> "idle"], [t \in Senders |-> None],
                     [t \in Senders |-> FALSE], MaxBurst, <<>>)

\* _send_json with a fault: the frame is written while acquire() is still
\* awaited. C23 fails under it.
MayWriteUnlimited(t) == snd_pc[t] \in {"acquire", "write"}

\* _send_json, lines 631-634: send_str is reached after acquire() returned.
MayWrite(t) == snd_pc[t] = "write"

\* _send_json, lines 630-631: caller t calls _send_json with a frame of
\* opcode op and awaits ratelimiter.acquire().
SendJson(t, op) ==
    /\ snd_pc[t] = "idle"
    /\ send' = SendState([snd_pc EXCEPT ![t] = "acquire"],
                         [snd_frame EXCEPT ![t] = op],
                         [snd_acquired EXCEPT ![t] = FALSE],
                         lim_tokens, wire)
    /\ UNCHANGED <<gwVars, shardVars, zlibVars, presVars, latVars>>

\* ratelimiter.acquire() returns to caller t: the window admits the send.
LimiterAcquired(t) ==
    /\ snd_pc[t] = "acquire"
    /\ lim_tokens > 0
    /\ send' = SendState([snd_pc EXCEPT ![t] = "write"],
                         snd_frame,
                         [snd_acquired EXCEPT ![t] = TRUE],
                         lim_tokens - 1, wire)
    /\ UNCHANGED <<gwVars, shardVars, zlibVars, presVars, latVars>>

\* _send_json, lines 632-634: the frame is serialised and written.
SendStr(t) ==
    /\ MayWrite(t)
    /\ send' = SendState([snd_pc EXCEPT ![t] = "idle"],
                         [snd_frame EXCEPT ![t] = None],
                         [snd_acquired EXCEPT ![t] = FALSE],
                         lim_tokens,
                         IF Len(wire) < MaxWire THEN Append(wire, snd_frame[t])
                         ELSE Append(Tail(wire), snd_frame[t]))
    /\ UNCHANGED <<gwVars, shardVars, zlibVars, presVars, latVars>>

\* A new window of the rate limiter begins.
LimiterWindow ==
    /\ lim_tokens < MaxBurst
    /\ send' = SendState(snd_pc, snd_frame, snd_acquired, MaxBurst, wire)
    /\ UNCHANGED <<gwVars, shardVars, zlibVars, presVars, latVars>>

SendNext ==
    \/ \E t \in Senders : \E op \in SenderFrames(t) : SendJson(t, op)
    \/ \E t \in Senders : LimiterAcquired(t)
    \/ \E t \in Senders : SendStr(t)
    \/ LimiterWindow

\* ------------------------------------------------------- the zlib stream
\* The bytes of a compressed payload, and the suffix that ends every payload
\* of a zlib stream (line 616).
BodyBytes == {1, 2}
ZLIB_SUFFIX == <<0, 0, 255, 255>>

\* The payloads the peer sends: at most MaxBody bytes and the suffix.
ZlibPayloads ==
    {b \o ZLIB_SUFFIX : b \in UNION {[1 .. n -> BodyBytes] : n \in 0 .. MaxBody}}

\* The frames of payload p cut after the positions in cuts.
RECURSIVE CutFrames(_, _, _)
CutFrames(p, cuts, from) ==
    IF \E c \in cuts : c >= from
    THEN LET c == CHOOSE x \in cuts : x >= from /\ \A y \in cuts : y >= from => x <= y
         IN  <<SubSeq(p, from, c)>> \o CutFrames(p, cuts, c + 1)
    ELSE <<SubSeq(p, from, Len(p))>>

\* bytes.endswith
EndsWith(b, suffix) ==
    /\ Len(b) >= Len(suffix)
    /\ SubSeq(b, Len(b) - Len(suffix) + 1, Len(b)) = suffix

\* A Python value handed to bytearray.append.
PyInt(n) == [kind |-> "int", val |-> n]
PyBytes(b) == [kind |-> "bytes", val |-> b]

\* bytearray.append(item): appends one integer; anything else is a TypeError.
ByteArrayAppend(buff, item) ==
    IF item.kind = "int"
    THEN [raised |-> "none", buff |-> Append(buff, item.val)]
    ELSE [raised |-> "TypeError", buff |-> buff]

\* self._zlib.decompress(buff).decode("utf-8"): the text of a payload.
Inflate(buff) ==
    [i \in 1 .. (Len(buff) - Len(ZLIB_SUFFIX)) |->
        IF buff[i] = 1 THEN "a" ELSE "b"]

ZlibReturned(packets, string) ==
    [raised |-> "none", packets |-> packets, string |-> string]
ZlibRaised(error) == [raised |-> error, packets |-> 0, string |-> <<>>]
NoZlibResult == ZlibRaised("none")

ZlibIdle == zlib = ZlibState(<<>>, <<>>, <<>>, 0, "idle", NoZlibResult)

\* A payload and a partition of it into frames are about to be received.
ZlibInit ==
    \E whole \in ZlibPayloads :
        \E cuts \in SUBSET (1 .. (Len(whole) - 1)) :
            zlib = ZlibState(whole, CutFrames(whole, cuts, 1), <<>>, 0, "idle",
                             NoZlibResult)

\* _receive_json_payload, lines 576-577, and _receive_zlib_message, lines
\* 612-614: the first BINARY frame starts the buffer.
ZlibFirstPacket ==
    /\ zl_pc = "idle"
    /\ zl_frames # <<>>
    /\ zlib' = ZlibState(zl_whole, Tail(zl_frames), Head(zl_frames), 1, "loop",
                         zl_result)
    /\ UNCHANGED <<gwVars, shardVars, sendVars, presVars, latVars>>

\* _receive_zlib_message, lines 616-621: the buffer does not end with the
\* suffix, the next frame is received and appended.
ZlibNextPacket ==
    /\ zl_pc = "loop"
    /\ ~EndsWith(zl_buff, ZLIB_SUFFIX)
    /\ zl_frames # <<>>
    /\ LET appended == ByteArrayAppend(zl_buff, PyBytes(Head(zl_frames)))
       IN  IF appended.raised = "none"
           THEN zlib' = ZlibState(zl_whole, Tail(zl_frames), appended.buff,
                                  zl_packets + 1, "loop", zl_result)
           ELSE zlib' = ZlibState(zl_whole, Tail(zl_frames), zl_buff,
                                  zl_packets, "done",
                                  ZlibRaised(appended.raised))
    /\ UNCHANGED <<gwVars, shardVars, sendVars, presVars, latVars>>

\* _receive_zlib_message, lines 616 and 623: the buffer ends with the suffix
\* and is decompressed.
ZlibReturns ==
    /\ zl_pc = "loop"
    /\ EndsWith(zl_buff, ZLIB_SUFFIX)
    /\ zlib' = ZlibState(zl_whole, zl_frames, zl_buff, zl_packets, "done",
                         ZlibReturned(zl_packets, Inflate(zl_buff)))
    /\ UNCHANGED <<gwVars, shardVars, sendVars, presVars, latVars>>

ZlibNext ==
    \/ ZlibFirstPacket
    \/ ZlibNextPacket
    \/ ZlibReturns

\* ------------------------------------------------------------ the presence
\* A Python value: its type and what tells it from others of its type.
PyValue(type, val) == [type |-> type, val |-> val]
UNSET == PyValue("unset", "")
PyNone == PyValue("none", "")
PyFalse == PyValue("bool", "False")
PyTrue == PyValue("bool", "True")

\* unset.is_unset (Gateway) and `is ...` (ShardClientImpl)
IsUnset(v) == v = UNSET

Statuses == {PyValue("PresenceStatus", "idle"), PyValue("PresenceStatus", "dnd")}
Activities == {PyValue("Activity", "game")}
Datetimes == {PyValue("datetime", "t1")}
Bools == {PyFalse, PyTrue}
ONLINE == PyValue("PresenceStatus", "online")

Presence(status, activity, idle_since, is_afk) ==
    [status |-> status, activity |-> activity, idle_since |-> idle_since,
     is_afk |-> is_afk]

\* What the constructor may be given, and what a call may be given.
StoredPresences ==
    {Presence(st, ac, since, afk) :
        st \in Statuses \cup {PyNone}, ac \in Activities \cup {PyNone},
        since \in Datetimes \cup {PyNone}, afk \in Bools \cup {PyNone}}

PresenceUpdates ==
    {Presence(st, ac, since, afk) :
        st \in Statuses \cup {UNSET}, ac \in Activities \cup {PyNone, UNSET},
        since \in Datetimes \cup {UNSET}, afk \in {PyTrue, UNSET}}

NoCall == Presence(PyNone, PyNone, PyNone, PyNone)

\* A payload, or the exception raised instead of one.
PresencePayload(since, afk, status, game) ==
    [raised |-> "none", since |-> since, afk |-> afk, status |-> status,
     game |-> game]
PresenceRaised(error) ==
    [raised |-> error, since |-> PyNone, afk |-> PyNone, status |-> PyNone,
     game |-> PyNone]
NoPayload == PresenceRaised("none")

\* Attribute access: activity.name/url/type, status.value,
\* idle_since.timestamp(); an object of another type raises AttributeError.
HasAttrs(v, type) == v.type = type

\* _build_presence_payload, lines 650-682, called on the stored presence p
\* with these four positional arguments.
BuildPresencePayload(p, idle_since, is_afk, status, activity) ==
    LET since_ == IF IsUnset(idle_since) THEN p.idle_since ELSE idle_since
        afk_ == IF IsUnset(is_afk) THEN p.is_afk ELSE is_afk
        status_ == IF IsUnset(status) THEN p.status ELSE status
        activity_ == IF IsUnset(activity) THEN p.activity ELSE activity
    IN  IF activity_ # PyNone /\ ~HasAttrs(activity_, "Activity")
        THEN PresenceRaised("AttributeError")
        ELSE IF since_ # PyNone /\ ~HasAttrs(since_, "datetime")
        THEN PresenceRaised("AttributeError")
        ELSE IF status_ # PyNone /\ ~HasAttrs(status_, "PresenceStatus")
        THEN PresenceRaised("AttributeError")
        ELSE PresencePayload(
                 IF since_ # PyNone THEN PyValue("float", since_.val) ELSE PyNone,
                 IF afk_ # PyNone THEN afk_ ELSE PyFalse,
                 IF status_ # PyNone THEN PyValue("str", status_.val)
                 ELSE PyValue("str", ONLINE.val),
                 IF activity_ # PyNone THEN PyValue("dict", activity_.val)
                 ELSE PyNone)

\* Merged with a fault: an unset argument clears the stored field. C27 fails
\* under it.
MergedClears(arg, stored) == IF IsUnset(arg) THEN PyNone ELSE arg

\* update_presence, lines 414-417 (Gateway) and 550-553 (ShardClientImpl):
\* an argument that is set replaces the stored field.
Merged(arg, stored) == IF IsUnset(arg) THEN stored ELSE arg

MergedPresence(u, p) ==
    Presence(Merged(u.status, p.status), Merged(u.activity, p.activity),
             Merged(u.idle_since, p.idle_since), Merged(u.is_afk, p.is_afk))

\* ShardClientImpl._create_presence_pl, lines 564-576.
CreatePresencePl(p) ==
    PresencePayload(
        IF p.idle_since # PyNone THEN PyValue("float", p.idle_since.val) ELSE PyNone,
        p.is_afk,
        p.status,
        IF p.activity # PyNone THEN PyValue("dict", p.activity.val) ELSE PyNone)

PresenceIdle ==
    pres = PresState("gateway", NoCall, "idle", NoCall, NoPayload, "none",
                     NoCall, FALSE)

\* A Gateway or a ShardClientImpl constructed with some presence.
PresenceInit ==
    \E who \in {"gateway", "shard"}, stored \in StoredPresences :
        pres = PresState(who, stored, "idle", NoCall, NoPayload, "none",
                         NoCall, FALSE)

\* Gateway.update_presence, lines 412-413, up to the await of the send: the
\* payload is built from the arguments in the order idle_since, is_afk,
\* activity, status.
UpdatePresence(u) ==
    /\ pr_who = "gateway"
    /\ pr_pc = "idle"
    /\ LET built == BuildPresencePayload(pr_stored, u.idle_since, u.is_afk,
                                         u.activity, u.status)
       IN  pres' = PresState(pr_who, pr_stored,
                             IF built.raised = "none" THEN "sending" ELSE "idle",
                             u, built, built.raised, pr_done, pr_twice)
    /\ UNCHANGED <<gwVars, shardVars, sendVars, zlibVars, latVars>>

\* ShardClientImpl.update_presence, lines 550-556, up to the await of the
\* connection's update_presence.
ShardUpdatePresence(u) ==
    /\ pr_who = "shard"
    /\ pr_pc = "idle"
    /\ pres' = PresState(pr_who, pr_stored, "sending", u,
                         CreatePresencePl(MergedPresence(u, pr_stored)),
                         "none", pr_done, pr_twice)
    /\ UNCHANGED <<gwVars, shardVars, sendVars, zlibVars, latVars>>

\* update_presence, lines 414-417 (Gateway) and 558-562 (ShardClientImpl):
\* the send has returned, the arguments are stored.
PresenceSent ==
    /\ pr_pc = "sending"
    /\ pres' = PresState(pr_who, MergedPresence(pr_args, pr_stored), "idle",
                         pr_args, pr_payload, pr_error, pr_args,
                         pr_done = pr_args)
    /\ UNCHANGED <<gwVars, shardVars, sendVars, zlibVars, latVars>>

\* PresenceSendFails with a fault: the arguments are stored although the
\* send raised. C37 fails under it.
PresenceSendFailsStores ==
    /\ pr_pc = "sending"
    /\ pres' = PresState(pr_who, MergedPresence(pr_args, pr_stored), "idle",
                         pr_args, pr_payload, "error", pr_done, pr_twice)
    /\ UNCHANGED <<gwVars, shardVars, sendVars, zlibVars, latVars>>

\* The send raises: update_presence ends there.
PresenceSendFails ==
    /\ pr_pc = "sending"
    /\ pres' = PresState(pr_who, pr_stored, "idle", pr_args, pr_payload,
                         "error", pr_done, pr_twice)
    /\ UNCHANGED <<gwVars, shardVars, sendVars, zlibVars, latVars>>

PresenceNext ==
    \/ \E u \in PresenceUpdates : UpdatePresence(u)
    \/ \E u \in PresenceUpdates : ShardUpdatePresence(u)
    \/ PresenceSent
    \/ PresenceSendFails

\* ---------------------------------------------------------- the timestamps
\* Python's float subtraction: NaN if either operand is.
Sub(a, b) == IF a = NaN \/ b = NaN THEN NaN ELSE a - b

\* What the poll loop of the unit receives: an event, a HEARTBEAT, a
\* HEARTBEAT_ACK.
LatOps == {DISPATCH, HEARTBEAT, HEARTBEAT_ACK}

\* __init__, lines 235-237, before any attempt.
LatencyIdle == lat = LatState(0, NaN, NaN, NaN, "open", "done", "done")

\* _run_once, lines 334-336: HELLO was received just now, the heartbeat task
\* is created and _poll_events is entered; in a first attempt no heartbeat
\* was sent before, in a later one a heartbeat was, and an ACK may have been
\* received.
LatencyInit ==
    \E now \in 0..1 :
        \E sent \in {NaN} \cup 0..now :
            \E latency \in {NaN} \cup (IF sent = NaN THEN {} ELSE {0}) :
                lat = LatState(now, now, sent, latency, "open", "receive", "top")

\* _poll_events, lines 535-560, with _receive_raw, lines 626-627: a frame
\* of opcode op is received.
LatReceive(op) ==
    /\ lat_poll_pc = "receive"
    /\ lat_ws = "open"
    /\ lat' = LatState(lat_now, lat_now, last_heartbeat_sent,
                       IF op = HEARTBEAT_ACK
                       THEN Sub(lat_now, last_heartbeat_sent)
                       ELSE heartbeat_latency,
                       lat_ws,
                       IF op = HEARTBEAT THEN "ack_send" ELSE "receive",
                       lat_hb_pc)
    /\ UNCHANGED <<gwVars, shardVars, sendVars, zlibVars, presVars>>

\* _receive_raw, lines 626-627, and _receive_json_payload, 601-602: the
\* socket is closed; _run_once cancels the heartbeat task (339).
LatReceiveClosed ==
    /\ lat_poll_pc = "receive"
    /\ lat_ws = "closed"
    /\ lat' = LatState(lat_now, lat_now, last_heartbeat_sent,
                       heartbeat_latency, lat_ws, "done", "done")
    /\ UNCHANGED <<gwVars, shardVars, sendVars, zlibVars, presVars>>

\* LatAckSent with a fault: the send of the poll loop stamps
\* last_heartbeat_sent. C33 fails under it.
LatAckSentStamps ==
    /\ lat_poll_pc = "ack_send"
    /\ lat' = LatState(lat_now, last_message_received, lat_now,
                       heartbeat_latency, lat_ws, "receive", lat_hb_pc)
    /\ UNCHANGED <<gwVars, shardVars, sendVars, zlibVars, presVars>>

\* _poll_events, line 556: the HEARTBEAT_ACK is sent.
LatAckSent ==
    /\ lat_poll_pc = "ack_send"
    /\ lat' = LatState(lat_now, last_message_received, last_heartbeat_sent,
                       heartbeat_latency, lat_ws, "receive", lat_hb_pc)
    /\ UNCHANGED <<gwVars, shardVars, sendVars, zlibVars, presVars>>

\* _pulse, lines 504-522, up to the await of the send; a zombie connection
\* is closed and the task returns.
LatPulse ==
    /\ lat_hb_pc = "top"
    /\ IF Lt(LatInterval, Sub(lat_now, last_message_received))
       THEN lat' = LatState(lat_now, last_message_received,
                            last_heartbeat_sent, heartbeat_latency, "closed",
                            lat_poll_pc, "done")
       ELSE lat' = LatState(lat_now, last_message_received,
                            last_heartbeat_sent, heartbeat_latency, lat_ws,
                            lat_poll_pc, "send")
    /\ UNCHANGED <<gwVars, shardVars, sendVars, zlibVars, presVars>>

\* _pulse, lines 522-526: the HEARTBEAT is sent, the time is taken, the task
\* sleeps.
LatPulseSent ==
    /\ lat_hb_pc = "send"
    /\ lat' = LatState(lat_now, last_message_received, lat_now,
                       heartbeat_latency, lat_ws, lat_poll_pc, "sleep")
    /\ UNCHANGED <<gwVars, shardVars, sendVars, zlibVars, presVars>>

\* _pulse, lines 525-528: heartbeat_interval has passed.
LatPulseWakes ==
    /\ lat_hb_pc = "sleep"
    /\ ~Lt(Sub(lat_now, last_heartbeat_sent), LatInterval)
    /\ lat' = LatState(lat_now, last_message_received, last_heartbeat_sent,
                       heartbeat_latency, lat_ws, lat_poll_pc, "top")
    /\ UNCHANGED <<gwVars, shardVars, sendVars, zlibVars, presVars>>

\* Time passes; a sleeping heartbeat task wakes when its interval is over.
LatTick ==
    /\ lat_now < MaxClock
    /\ lat_poll_pc # "done"
    /\ ~(lat_hb_pc = "sleep" /\ ~Lt(Sub(lat_now, last_heartbeat_sent), LatInterval))
    /\ lat' = LatState(lat_now + 1, last_message_received,
                       last_heartbeat_sent, heartbeat_latency, lat_ws,
                       lat_poll_pc, lat_hb_pc)
    /\ UNCHANGED <<gwVars, shardVars, sendVars, zlibVars, presVars>>

LatencyNext ==
    \/ \E op \in LatOps : LatReceive(op)
    \/ LatReceiveClosed
    \/ LatAckSent
    \/ LatPulse
    \/ LatPulseSent
    \/ LatPulseWakes
    \/ LatTick

\* ------------------------------------------------------------------ units
UnitInit == SendInit /\ ZlibIdle /\ PresenceIdle /\ LatencyIdle

\* ------------------------------------------------------ the specification
RunTask ==
    \/ Run
    \/ BackoffTimeout
    \/ BackoffInterrupted
    \/ Connected
    \/ ConnectRefused
    \/ ConnectFailed
    \/ \E ms \in HelloIntervalsMs : HandshakeHello(ms)
    \/ HandshakeNotHello
    \/ HandshakeSent
    \/ HandshakeSendFails
    \/ \E code \in PeerCloseCodes : ReceiveClose(code)
    \/ ReceiveClosed
    \/ ReceiveError
    \/ \E t \in EventNames, s \in Seqs, sid \in SessionIds : PollDispatch(t, s, sid)
    \/ PollHeartbeat
    \/ PollAckSent
    \/ PollAckFails
    \/ PollIgnored
    \/ PollReconnect
    \/ \E can_resume \in BOOLEAN : PollInvalidSession(can_resume)
    \/ ExceptHandled

PulseTask ==
    \/ Pulse
    \/ PulseSent
    \/ PulseSendFails
    \/ PulseWakes

Next ==
    \/ Start
    \/ StartReturns
    \/ Close
    \/ DispatchRuns
    \/ RunTask
    \/ PulseTask
    \/ Tick
    \/ SocketLost

\* The Gateway, beside a shard client that is never started.
Init == GatewayInit /\ ClientInit(TRUE) /\ UnitInit

Spec == Init /\ [][Next]_vars

\* The shard client and its connection, beside a Gateway that is never
\* started.
ShardInit ==
    GatewayInit /\ UnitInit /\ \E dispatcher \in BOOLEAN : ClientInit(dispatcher)

ShardSpec == ShardInit /\ [][ShardNext]_vars

\* The send path of the Gateway, beside a Gateway and a shard client that are
\* never started.
SendSpec == Init /\ [][SendNext]_vars

\* _receive_zlib_message on every payload and every partition of it.
ZlibSpecInit ==
    GatewayInit /\ ClientInit(TRUE) /\ SendInit /\ ZlibInit /\ PresenceIdle
    /\ LatencyIdle

ZlibSpec == ZlibSpecInit /\ [][ZlibNext]_vars

\* update_presence on every stored presence, with every update.
PresenceSpecInit ==
    GatewayInit /\ ClientInit(TRUE) /\ SendInit /\ ZlibIdle /\ PresenceInit
    /\ LatencyIdle

PresenceSpec == PresenceSpecInit /\ [][PresenceNext]_vars

\* The timestamps of an attempt, under every interleaving of its poll loop
\* and its heartbeat task.
LatencySpecInit ==
    GatewayInit /\ ClientInit(TRUE) /\ SendInit /\ ZlibIdle /\ PresenceIdle
    /\ LatencyInit

LatencySpec == LatencySpecInit /\ [][LatencyNext]_vars

\* The Gateway under the scheduling of asyncio: a task that can run does run
\* (the run task with the frames its peer sends it, the heartbeat task, and
\* the caller of start() once its wait is over).
FairSpec ==
    Spec /\ WF_vars(RunTask) /\ WF_vars(PulseTask) /\ WF_vars(StartReturns)

\* ================================================================ claims
\* The close codes the specification calls fatal.
SpecFatalCodes ==
    { NOT_AUTHENTICATED, AUTHENTICATION_FAILED, ALREADY_AUTHENTICATED,
      INVALID_SHARD, SHARDING_REQUIRED, INVALID_VERSION, INVALID_INTENT,
      DISALLOWED_INTENT }

\* The close codes the specification calls reconnectable.
SpecReconnectableCodes ==
    { UNKNOWN_ERROR, DECODE_ERROR, INVALID_SEQ, RATE_LIMITED, SESSION_TIMEOUT,
      RFC_6455_NORMAL_CLOSURE, RFC_6455_GOING_AWAY }

\* The attempt under way follows one that ended with an exception of `kind`,
\* and is about to send its first frame.
FirstFrameAfter(kind) == run_pc = "hs_send" /\ prev_exit.kind = kind

\* The first frame resumes the session the previous attempt ended with.
ResumesPrevious ==
    payload = Frame(RESUME, prev_exit.session_id, prev_exit.seq)

\* C1: the first frame an attempt sends after HELLO is a RESUME with the
\* stored session_id and seq when a session_id is stored, an IDENTIFY when
\* none is; no RESUME is sent without a session_id, and the heartbeat task
\* sends nothing before that frame.
C1 ==
    run_pc = "hs_send" =>
        /\ session_id # NoSession =>
               /\ payload.op = RESUME
               /\ payload.session_id = session_id
               /\ payload.seq = seq
        /\ session_id = NoSession => payload.op = IDENTIFY
        /\ payload.op = RESUME => payload.session_id # NoSession
        /\ hb_pc \in {"none", "done"}

C1_Witness ==
    /\ run_pc = "hs_send"
    /\ payload.op = RESUME
    /\ payload.session_id = "abc"
    /\ payload.seq = MaxSeq

\* C2: after an INVALID_SESSION with d = false, no state shows only one of
\* seq and session_id cleared: while the close is awaited both are as they
\* were, from then on both are cleared; the next attempt sends IDENTIFY.
C2 ==
    /\ (run_pc = "except" /\ ex.kind = "invalid_session" /\ ~ex.flag) =>
           /\ session_id = prev_exit.session_id
           /\ seq = prev_exit.seq
    /\ (prev_exit.kind = "invalid_session" /\ ~prev_exit.flag
            /\ run_pc \in {"backoff", "connect", "hello", "hs_send"}) =>
           /\ session_id = NoSession
           /\ seq = None
    /\ (FirstFrameAfter("invalid_session") /\ ~prev_exit.flag) =>
           payload.op = IDENTIFY

C2_Witness ==
    /\ FirstFrameAfter("invalid_session")
    /\ ~prev_exit.flag
    /\ prev_exit.session_id # NoSession
    /\ prev_exit.seq # None
    /\ payload.op = IDENTIFY

\* C3 as the specification has it: after an INVALID_SESSION with d = true
\* the next attempt sends RESUME with the retained session_id and seq.
C3_Original ==
    (FirstFrameAfter("invalid_session") /\ prev_exit.flag) => ResumesPrevious

\* C3, amended: after an INVALID_SESSION with d = true the socket is closed
\* with code 3000 and session_id and seq are left as they were; the next
\* attempt sends RESUME with them when a session_id is stored, and IDENTIFY
\* when none is.
C3 ==
    /\ (run_pc = "except" /\ ex.kind = "invalid_session" /\ ex.flag) =>
           /\ ws = "closed"
           /\ ws_close_code = DO_NOT_INVALIDATE_SESSION
    /\ (prev_exit.kind = "invalid_session" /\ prev_exit.flag
            /\ run_pc \in {"except", "backoff", "connect", "hello", "hs_send"}) =>
           /\ session_id = prev_exit.session_id
           /\ seq = prev_exit.seq
    /\ (FirstFrameAfter("invalid_session") /\ prev_exit.flag) =>
           IF prev_exit.session_id # NoSession THEN ResumesPrevious
           ELSE payload.op = IDENTIFY

C3_Witness ==
    /\ FirstFrameAfter("invalid_session")
    /\ prev_exit.flag
    /\ prev_exit.code = DO_NOT_INVALIDATE_SESSION
    /\ prev_exit.session_id # NoSession
    /\ payload.op = RESUME

\* C4: a RECONNECT received while a session is stored resets the back-off
\* and closes the socket with code 3000; session_id and seq are kept; unless
\* close() was called the run loop makes another attempt, and that attempt
\* sends RESUME.
C4 ==
    /\ [](/\ (run_pc = "except" /\ ex.kind = "reconnect") =>
                /\ backoff = BackoffReset
                /\ ws = "closed"
                /\ ws_close_code = DO_NOT_INVALIDATE_SESSION
          /\ (prev_exit.kind = "reconnect"
                 /\ run_pc \in {"except", "backoff", "connect", "hello", "hs_send"}) =>
                /\ session_id = prev_exit.session_id
                /\ seq = prev_exit.seq
          /\ (FirstFrameAfter("reconnect") /\ prev_exit.session_id # NoSession) =>
                ResumesPrevious)
    /\ [][(run_pc = "except" /\ ex.kind = "reconnect" /\ run_pc' # "except") =>
             IF request_close_event THEN run_pc' = "done"
             ELSE run_pc' \in {"backoff", "connect"}]_vars

C4_Witness ==
    /\ FirstFrameAfter("reconnect")
    /\ prev_exit.code = DO_NOT_INVALIDATE_SESSION
    /\ prev_exit.session_id # NoSession
    /\ payload.op = RESUME

\* C5 as the specification has it: when the connection ends with a server
\* close whose code is one of 4003, 4004, 4005, 4010, 4011, 4012, 4013 and
\* 4014, _keep_alive ends by raising that error and connects no more.
C5_Original ==
    (ka_caught.kind = "server_closed" /\ ka_caught.code \in SpecFatalCodes) =>
        /\ ka_pc = "done"
        /\ ka_error = ka_caught

\* C6 as the specification has it: the error raised for a CLOSE frame has
\* can_reconnect = true exactly for the codes 4000, 4002, 4007, 4008, 4009,
\* 1000 and 1001.
C6_Original ==
    ex.kind = "server_closed" =>
        (ex.flag <=> ex.code \in SpecReconnectableCodes)

\* C7 as the specification has it: a close frame of the peer with a
\* reconnectable code (one the specification lists, and which the error
\* itself marks can_reconnect) never ends the run task.
C7_Original ==
    ~ /\ run_pc = "done"
      /\ run_error.kind = "server_closed"
      /\ run_error.code \in SpecReconnectableCodes
      /\ run_error.flag

C9_Original ==
    [][(run_pc = "backoff" /\ request_close_event /\ run_pc' # "backoff") =>
          run_pc' = "done"]_vars

\* The poll loop runs, the heartbeat task sleeps, and close() was called.
ClosedWhileEstablished ==
    /\ run_pc = "poll"
    /\ hb_pc = "sleep"
    /\ request_close_event

\* C10: when close() is called while a connection is established (the poll
\* loop runs, the heartbeat task sleeps), the heartbeat task and the poll
\* loop eventually exit and the run task ends with GatewayClientClosedError;
\* from the call on no attempt is started, and a run task that has ended
\* starts none.
C10 ==
    /\ ClosedWhileEstablished ~>
           /\ run_pc = "done"
           /\ run_error.kind = "client_closed"
           /\ hb_pc = "done"
    /\ [][(request_close_event /\ run_pc \in {"poll", "poll_ack"}) =>
             run_pc' \in {"poll", "poll_ack", "except", "done"}]_vars
    /\ [][(request_close_event /\ run_pc = "except") =>
             run_pc' \in {"except", "done"}]_vars
    /\ [][run_pc = "done" => run_pc' = "done" /\ ws' = ws]_vars

C10_Witness ==
    /\ ClosedWhileEstablished
    /\ ws = "closed"
    /\ ws_close_code = RFC_6455_NORMAL_CLOSURE

\* C11 as the specification has it, for ShardClientImpl: a close() called
\* after an earlier close() has ended does nothing (it does not get past the
\* test of line 388: no state is set, no event dispatched, no close sent).
C11_Original ==
    [][(close_pc \in {"returned", "raised"}) => (close_pc' = close_pc)]_vars

\* C12 as the specification has it: once close() has returned, the shard
\* state is STOPPED.
C12_Original == close_pc = "returned" => shard_state = "STOPPED"

\* How often the dispatcher was given the event `name`.
Count(log, name) == Cardinality({i \in DOMAIN log : log[i] = name})

\* C13 as the specification has it: whatever close() calls a started shard
\* with a dispatcher gets, the stopping event and the stopped event are
\* dispatched at most once each.
C13_Original ==
    (has_dispatcher /\ start_pc # "none") =>
        /\ Count(observed, "stopping") <= 1
        /\ Count(observed, "stopped") <= 1

\* C14 as the specification has it, in its last clause: the shard state
\* never leaves STOPPING for CONNECTING.
C14_Original ==
    [][~(shard_state = "STOPPING" /\ shard_state' = "CONNECTING")]_vars

\* C15 as the specification has it, for start(): a start() called while the
\* shard is running creates no second keep-alive task.
C15_Original == ~extra_task

\* The failures the keep-alive loop is to absorb.
Recoverable(e) ==
    \/ e.kind \in {"connector_error", "zombied", "invalid_session",
                   "must_reconnect", "client_disconnected"}
    \/ e.kind = "server_closed" /\ e.code \in SpecReconnectableCodes

\* C16: the wait of start() ends only when the keep-alive task is done or
\* the connection has received the READY of its first handshake; start()
\* raises the exception of a keep-alive task that ended with one before
\* that, and returns otherwise; a recoverable failure does not end the
\* keep-alive task: it goes on to another attempt.
C16 ==
    /\ [][(start_pc = "waiting" /\ start_pc' # "waiting") =>
             \/ start_pc' = "released" /\ conn_pc' = "ready"
                    /\ conn_session_id' # NoSession /\ ~is_resume
             \/ ka_pc = "done"]_vars
    /\ [][(start_pc = "waiting" /\ ka_pc = "done" /\ start_pc' # "waiting") =>
             start_pc' = IF ka_error # NoExc THEN "raised" ELSE "returned"]_vars
    /\ [][(start_pc = "released" /\ start_pc' # "released") =>
             start_pc' = IF ka_pc = "done" /\ ka_error # NoExc THEN "raised"
                         ELSE "returned"]_vars
    /\ [](Recoverable(ka_caught) =>
             /\ ka_pc \in {"backoff", "sleep5", "wait_hello"}
             /\ ka_error = NoExc)

C16_Witness ==
    /\ start_pc = "raised"
    /\ ka_pc = "done"
    /\ ka_error.kind = "server_closed"
    /\ ka_error.code = AUTHENTICATION_FAILED
    /\ connect_count > 1

\* C17: however the run task ends, _handshake_event is set when it has
\* ended, a caller waiting in start() has been released by then, and it
\* eventually returns from start().
C17 ==
    /\ [](run_pc = "done" =>
             /\ handshake_event
             /\ start_wait \in {"released", "returned"})
    /\ (run_pc = "done") ~> (start_wait = "returned")

C17_Witness ==
    /\ run_pc = "done"
    /\ run_error.kind = "error"
    /\ ws = "none"
    /\ start_wait = "returned"

\* C18: in every attempt DISCONNECTED is dispatched at teardown only if
\* CONNECTED was dispatched in that attempt. connected_at is assigned at
\* line 318, before the handshake, and CONNECTED is dispatched at line 329,
\* after it: an attempt that fails in the handshake dispatches DISCONNECTED
\* alone.
C18_Original == ("DISCONNECTED" \in dispatched) => ("CONNECTED" \in dispatched)

\* C19: an event of the protocol is dispatched in an attempt only after
\* CONNECTED was; DISCONNECTED is dispatched in a step that leaves the
\* attempt (the poll loop is over), and an attempt that dispatched
\* CONNECTED has dispatched DISCONNECTED when the next one waits to begin
\* or connects, or when the run task has ended.
C19 ==
    /\ [](("DISPATCH" \in dispatched) => ("CONNECTED" \in dispatched))
    /\ [](("DISCONNECTED" \in dispatched) =>
              (run_pc \in {"backoff", "connect", "done"}))
    /\ []((run_pc \in {"backoff", "connect", "done"}
           /\ "CONNECTED" \in dispatched) => ("DISCONNECTED" \in dispatched))
    /\ [][("DISPATCH" \in dispatched' /\ "DISPATCH" \notin dispatched) =>
              (run_pc = "poll" /\ "CONNECTED" \in dispatched)]_vars

C19_Witness ==
    /\ run_pc = "connect"
    /\ dispatched = {"CONNECTED", "DISPATCH", "DISCONNECTED"}
    /\ prev_exit.kind = "reconnect"

\* C20: when the consumer tasks start, the gateway's seq is a number, and it
\* is not less than the "s" of any event they were created for. seq is
\* assigned from every DISPATCH frame as it comes and is set to None after
\* an INVALID_SESSION that cannot resume; a task created at line 552 starts
\* only when the run task suspends.
C20_Original ==
    [][(pending_seq # 0 /\ pending_seq' = 0) =>
           (seq # None /\ seq >= pending_seq)]_vars

\* C21: while a session lasts (session_id stays what it is), the stored seq
\* never decreases, whatever DISPATCH frames are received; and seq is
\* cleared only in a step that leaves session_id cleared. _poll_events
\* assigns the "s" of every DISPATCH frame as it comes (line 543), also a
\* smaller one.
C21_Original ==
    /\ [][(session_id # NoSession /\ session_id' = session_id
           /\ seq # None /\ seq' # None) => (seq' >= seq)]_vars
    /\ [][(seq # None /\ seq' = None) => (session_id' = NoSession)]_vars

\* C22: a DISPATCH with t = "RESUMED" received in the poll loop sets
\* _handshake_event, as READY does. The test of line 548 is for "RESUME",
\* which is the name of no event: after a resume the event stays cleared.
C22_Original ==
    [][(\E s \in Seqs, sid \in SessionIds : PollDispatch("RESUMED", s, sid))
           => handshake_event']_vars

\* C24: no back-off sleep is taken before the first attempt, nor before the
\* attempt that follows a RECONNECT, an INVALID_SESSION or a close by the
\* server with a code that allows to reconnect. _keep_alive leaves
\* do_not_back_off False after a close by the server (lines 459-473): the
\* next attempt backs off when the last one started less than 30 s ago.
C24_Original ==
    /\ (connect_count = 0 => ka_pc # "backoff")
    /\ ((\/ ka_caught.kind \in {"must_reconnect", "invalid_session"}
         \/ /\ ka_caught.kind = "server_closed"
            /\ ka_caught.code \in SpecReconnectableCodes) => ka_pc # "backoff")

\* C28: in every attempt the heartbeat task exists only in the poll loop,
\* that is after HELLO was received and IDENTIFY or RESUME was sent: it is
\* created in the step in which that send returns, heartbeat_interval is a
\* number from the HELLO on, and a HEARTBEAT frame is prepared or sent only
\* in the poll loop.
C28 ==
    /\ [](hb_pc \in {"top", "send", "sleep"} => run_pc \in {"poll", "poll_ack"})
    /\ [](hb_payload # NoFrame =>
              /\ run_pc \in {"poll", "poll_ack"}
              /\ heartbeat_interval # NaN)
    /\ [](run_pc \in {"hs_send", "poll", "poll_ack"} => heartbeat_interval # NaN)
    /\ [][(hb_pc \in {"none", "done"} /\ hb_pc' = "top") =>
              (run_pc = "hs_send" /\ run_pc' = "poll")]_vars

\* A HEARTBEAT is being sent in an attempt that follows a zombied one.
C28_Witness ==
    /\ run_pc = "poll"
    /\ hb_pc = "send"
    /\ hb_payload.op = HEARTBEAT
    /\ hb_payload.seq = seq
    /\ zombied

\* The run task is in the poll loop of an attempt.
Polling == run_pc \in {"poll", "poll_ack"}

\* C29: the heartbeat task and the poll loop of an attempt end together.
\* Outside the poll loop no heartbeat task is alive; a heartbeat task that
\* ended while the poll loop runs has left the socket closed, and the poll
\* loop then ends too.
C29 ==
    /\ [](~Polling => hb_pc \in {"none", "done"})
    /\ []((Polling /\ hb_pc = "done") => ws = "closed")
    /\ (Polling /\ hb_pc = "done") ~> ~Polling

\* The heartbeat task found a zombie connection and ended; the poll loop has
\* not yet seen the closed socket.
C29_Witness ==
    /\ Polling
    /\ hb_pc = "done"
    /\ zombied
    /\ ws_close_code = ZombieCloseCode
    /\ ~request_close_event

\* C30: every step that leaves the poll loop leaves the heartbeat task
\* ended, and the exception that ended the loop is the one _run_once goes on
\* with: the one its except clause handles, and, where the clause raises
\* again, the one the run task ends with.
C30 ==
    /\ [][(Polling /\ ~Polling') => (hb_pc' = "done")]_vars
    /\ [][(Polling /\ PollReconnect) =>
              (ex'.kind = "reconnect" /\ prev_exit'.kind = "reconnect")]_vars
    /\ [][\A can_resume \in BOOLEAN :
              (Polling /\ PollInvalidSession(can_resume)) =>
                  /\ ex' = Exc("invalid_session", 0, can_resume)
                  /\ prev_exit'.kind = "invalid_session"]_vars
    /\ [][\A code \in PeerCloseCodes :
              (Polling /\ ReceiveClose(code)) =>
                  ex' = Exc("server_closed", code, CanReconnect(code))]_vars
    /\ [][(Polling /\ ReceiveClosed) => (prev_exit'.kind = "socket_closed")]_vars
    /\ [][(Polling /\ ReceiveError) => (ex'.kind = "gateway_error")]_vars
    /\ [][(Polling /\ PollAckFails) => (ex'.kind = "error")]_vars
    /\ [][(run_pc = "except" /\ ex.kind \notin {"invalid_session", "reconnect"}
           /\ run_pc' # "except") => (run_pc' = "done" /\ run_error' = ex)]_vars

\* The poll loop was ended by a close frame of the server; the run task has
\* ended with that exception and the heartbeat task is ended.
C30_Witness ==
    /\ run_pc = "done"
    /\ run_error.kind = "server_closed"
    /\ run_error.code = SESSION_TIMEOUT
    /\ "DISPATCH" \in dispatched
    /\ hb_pc = "done"

\* C23: a frame is written to the socket only by a call of _send_json whose
\* acquire() has returned, and the frame written is the one of that call,
\* whatever the other callers are doing.
C23 ==
    [][(wire' # wire) =>
           \E t \in Senders :
               /\ snd_pc[t] = "write"
               /\ snd_acquired[t]
               /\ snd_frame[t] \in SenderFrames(t)
               /\ wire'[Len(wire')] = snd_frame[t]
               /\ snd_pc'[t] = "idle"
               /\ \A u \in Senders \ {t} : snd_pc'[u] = snd_pc[u]]_vars

\* A HEARTBEAT was written while the user's PRESENCE_UPDATE waits for the
\* limiter and the run task's HEARTBEAT_ACK is about to be written.
C23_Witness ==
    /\ Len(wire) > 0
    /\ wire[Len(wire)] = HEARTBEAT
    /\ snd_pc["user"] = "acquire"
    /\ snd_frame["user"] = PRESENCE_UPDATE
    /\ snd_pc["run"] = "write"
    /\ snd_frame["run"] = HEARTBEAT_ACK
    /\ lim_tokens = 0

\* C25: whatever the partition of a payload into BINARY frames, what
\* _receive_zlib_message returns is the text of the payload, as when the
\* payload comes in one frame. Line 620 hands the next frame's bytes to
\* bytearray.append, which takes one integer: every payload of more than one
\* frame ends in a TypeError.
C25_Original ==
    (zl_pc = "done") =>
        /\ zl_result.raised = "none"
        /\ zl_result.string = Inflate(zl_whole)

\* The value the specification gives a field of the frame: the argument
\* when it is set, the stored value of that field otherwise.
Supplied(arg, stored) == IF arg # UNSET THEN arg ELSE stored

\* C26: the PRESENCE_UPDATE built by Gateway.update_presence carries, for
\* status, game, since and afk, the argument of the call when it is set and
\* the stored value of that field when it is not. update_presence passes
\* activity where _build_presence_payload takes status, and status where it
\* takes activity (line 412 against lines 650-656).
C26_Original ==
    (pr_who = "gateway" /\ pr_args # NoCall) =>
        /\ pr_error # "AttributeError"
        /\ (pr_pc = "sending") =>
               pr_payload = BuildPresencePayload(
                   NoCall,
                   Supplied(pr_args.idle_since, pr_stored.idle_since),
                   Supplied(pr_args.is_afk, pr_stored.is_afk),
                   Supplied(pr_args.status, pr_stored.status),
                   Supplied(pr_args.activity, pr_stored.activity))

\* C27: an update that repeats the one that returned before it leaves the
\* stored presence, and the payload built from it, as they are; so does an
\* update with every field unset. (Gateway and ShardClientImpl.)
C27 ==
    /\ [][(PresenceSent /\ pr_args = pr_done) =>
              /\ pr_stored' = pr_stored
              /\ BuildPresencePayload(pr_stored', UNSET, UNSET, UNSET, UNSET)
                     = BuildPresencePayload(pr_stored, UNSET, UNSET, UNSET, UNSET)
              /\ CreatePresencePl(pr_stored') = CreatePresencePl(pr_stored)]_vars
    /\ [][(PresenceSent /\ pr_args = Presence(UNSET, UNSET, UNSET, UNSET)) =>
              (pr_stored' = pr_stored)]_vars

\* The same update of two fields has returned twice.
C27_Witness ==
    /\ pr_twice
    /\ pr_pc = "idle"
    /\ pr_done.idle_since \in Datetimes
    /\ pr_done.is_afk = PyTrue
    /\ pr_done.status = UNSET
    /\ pr_stored.idle_since = pr_done.idle_since
    /\ pr_stored.status \in Statuses

\* C31: a first frame that is not HELLO makes the handshake raise a
\* GatewayError with no IDENTIFY or RESUME built or sent and
\* heartbeat_interval as it was; the socket is closed with 1011, the run task
\* ends with that error and stays ended.
C31 ==
    /\ [][HandshakeNotHello =>
              /\ ex' = Exc("gateway_error", 0, FALSE)
              /\ payload' = NoFrame
              /\ heartbeat_interval' = heartbeat_interval
              /\ ws' = "closed"
              /\ ws_close_code' = RFC_6455_UNEXPECTED_CONDITION
              /\ run_pc' = "except"]_vars
    /\ [](ex.kind = "gateway_error" => (run_pc = "except" /\ payload = NoFrame))
    /\ [][(run_pc = "except" /\ ex.kind = "gateway_error") =>
              \/ run_pc' = "except" /\ ex' = ex /\ payload' = NoFrame
              \/ run_pc' = "done" /\ run_error' = ex]_vars
    /\ [][(run_pc = "done") => (run_pc' = "done" /\ run_error' = run_error)]_vars

\* An attempt that would have resumed a session got a first frame that was
\* not HELLO: the run task has ended with the GatewayError, the socket was
\* closed with 1011.
C31_Witness ==
    /\ run_pc = "done"
    /\ run_error = Exc("gateway_error", 0, FALSE)
    /\ prev_exit.kind = "gateway_error"
    /\ prev_exit.session_id # NoSession
    /\ ws = "closed"
    /\ ws_close_code = RFC_6455_UNEXPECTED_CONDITION
    /\ hb_pc = "done"

\* C32: when the receive finds the socket CLOSING or CLOSED, session_id and
\* seq stay as they are; if no close was requested _run_once returns that it
\* can reconnect and the run loop starts the next attempt, and if a close
\* was requested the run task ends.
C32 ==
    [][ReceiveClosed =>
           /\ session_id' = session_id
           /\ seq' = seq
           /\ ex' = NoExc
           /\ prev_exit'.kind = "socket_closed"
           /\ ~request_close_event => run_pc' \in {"backoff", "connect"}
           /\ request_close_event =>
                  (run_pc' = "done" /\ run_error' = Exc("client_closed", 0, FALSE))]_vars

\* A connection with a session was lost with no close requested and no
\* zombie detected: the next attempt is under way with the session kept.
C32_Witness ==
    /\ prev_exit.kind = "socket_closed"
    /\ prev_exit.session_id # NoSession
    /\ run_pc \in {"backoff", "connect"}
    /\ session_id = prev_exit.session_id
    /\ seq = prev_exit.seq
    /\ ~zombied
    /\ ws_close_code = 0

\* C33: while the poll loop and the heartbeat task run, last_message_received
\* is written only by a receive of the poll loop, last_heartbeat_sent only by
\* the heartbeat task after its send, and heartbeat_latency only when a
\* HEARTBEAT_ACK is received, as now minus last_heartbeat_sent.
C33 ==
    /\ [][(last_message_received' # last_message_received) =>
              /\ (\E op \in LatOps : LatReceive(op)) \/ LatReceiveClosed
              /\ last_message_received' = lat_now
              /\ lat_hb_pc' = lat_hb_pc \/ lat_poll_pc' = "done"]_vars
    /\ [][(last_heartbeat_sent' # last_heartbeat_sent) =>
              /\ LatPulseSent
              /\ last_heartbeat_sent' = lat_now
              /\ lat_poll_pc' = lat_poll_pc]_vars
    /\ [][(heartbeat_latency' # heartbeat_latency) =>
              LatReceive(HEARTBEAT_ACK)]_vars
    /\ [][LatReceive(HEARTBEAT_ACK) =>
              heartbeat_latency' = Sub(lat_now, last_heartbeat_sent)]_vars

\* A HEARTBEAT was sent, its ACK came a tick later and another frame after
\* that, while the heartbeat task sleeps.
C33_Witness ==
    /\ lat_hb_pc = "sleep"
    /\ lat_poll_pc = "receive"
    /\ heartbeat_latency = 1
    /\ last_message_received = lat_now
    /\ last_heartbeat_sent = lat_now - 2

\* C34: the zombied flag is false whenever an attempt starts polling, so a
\* zombie found in an earlier attempt does not count in a later one. No
\* line of gateway.py sets _zombied back to False (231, 515).
C34_Original == [][(~Polling /\ Polling') => ~zombied']_vars

\* A step of the heartbeat task: one of the actions of _pulse.
HeartbeatStep == Pulse \/ PulseSent \/ PulseSendFails \/ PulseWakes

\* C35: a heartbeat task belongs to one attempt. A heartbeat task is created
\* only when the one before it has ended; it takes steps only while the poll
\* loop of its attempt runs; once that loop has exited it holds no HEARTBEAT,
\* takes no step, and so neither writes to nor closes a socket, until the
\* next attempt creates its own task on entering its poll loop (a task
\* created when a close is already requested is cancelled before it runs).
C35 ==
    /\ [][(hb_pc' = "top" /\ hb_pc \notin {"sleep", "top"}) =>
              /\ hb_pc \in {"none", "done"}
              /\ hb_payload = NoFrame
              /\ ~Polling /\ Polling']_vars
    /\ [][HeartbeatStep => (Polling /\ Polling' /\ run_pc' = run_pc)]_vars
    /\ [](~Polling => (hb_pc \in {"none", "done"} /\ hb_payload = NoFrame))
    /\ [][(Polling /\ ~Polling') =>
              (hb_pc' \in {"none", "done"} /\ hb_payload' = NoFrame)]_vars
    /\ [][(~Polling /\ ~Polling') =>
              /\ hb_pc' = hb_pc \/ (run_pc = "hs_send" /\ hb_pc' = "done")
              /\ hb_payload' = hb_payload
              /\ zombied' = zombied]_vars

\* The second attempt is connected and about to receive HELLO on its own
\* socket, after a RECONNECT ended the poll loop of the first; the
\* heartbeat task of the first attempt has ended and holds no frame.
C35_Witness ==
    /\ run_pc = "hello"
    /\ ws = "open"
    /\ hb_pc = "done"
    /\ hb_payload = NoFrame
    /\ prev_exit.kind = "reconnect"
    /\ ~zombied
    /\ ~request_close_event

\* C36: between any two steps of the tasks, a stored session_id comes with a
\* stored seq: the READY that stores the session_id stores its "s" in the
\* same step, seq is cleared only by the handler of an invalid session that
\* cannot resume, in the step that clears session_id, and by nothing else.
C36 ==
    /\ [](session_id # NoSession => seq # None)
    /\ [][(session_id' # session_id /\ session_id' # NoSession) =>
              /\ \E s \in Seqs : PollDispatch("READY", s, session_id')
              /\ seq' \in Seqs]_vars
    /\ [][(seq # None /\ seq' = None) =>
              /\ ExceptHandled
              /\ ex = Exc("invalid_session", 0, FALSE)
              /\ session_id' = NoSession]_vars
    /\ [][(session_id # NoSession /\ session_id' = NoSession) => (seq' = None)]_vars

\* The session "xyz" was stored with seq 1, and an INVALID_SESSION that
\* cannot resume has cleared both: the next attempt is starting with
\* neither.
C36_Witness ==
    /\ prev_exit.kind = "invalid_session"
    /\ ~prev_exit.flag
    /\ prev_exit.session_id = "xyz"
    /\ prev_exit.seq = 1
    /\ session_id = NoSession
    /\ seq = None
    /\ run_pc \in {"backoff", "connect"}

\* C37: when the send of the PRESENCE_UPDATE raises inside update_presence,
\* the stored status, activity, idle_since and is_afk stay as they were; they
\* change only in the step in which the send returns. (Gateway and
\* ShardClientImpl.)
C37 ==
    /\ [][PresenceSendFails => (pr_stored' = pr_stored /\ pr_pc' = "idle")]_vars
    /\ [][(pr_stored' # pr_stored) =>
              /\ PresenceSent
              /\ pr_pc = "sending"
              /\ pr_error = "none"
              /\ pr_stored' = MergedPresence(pr_args, pr_stored)]_vars
    /\ []((pr_pc = "sending") => (pr_error = "none" /\ pr_payload.raised = "none"))

\* A Gateway with no idle time stored was asked to store one and to clear
\* the activity; the send raised, and the stored presence is what it was.
C37_Witness ==
    /\ pr_who = "gateway"
    /\ pr_pc = "idle"
    /\ pr_error = "error"
    /\ pr_args.idle_since \in Datetimes
    /\ pr_args.activity = PyNone
    /\ pr_stored.idle_since = PyNone
    /\ pr_stored.activity \in Activities
    /\ pr_done = NoCall

=============================================================================
